---- MODULE Spec2Model ----
(***************************************************************************)
(* A model of the widget synchronization core of anymap: the persisted     *)
(* layer/source/control state of a map widget, its outbound call queue,    *)
(* its inbound event inbox, and the replay performed by the exported       *)
(* document.                                                               *)
(*                                                                         *)
(* Python values are modelled as follows.  A dict whose insertion order is *)
(* observable (_layers, _sources, _controls) is a sequence of records      *)
(* [k |-> key, v |-> value]; assignment to a present key keeps its place,  *)
(* deletion followed by insertion moves it to the end.  A dict that is     *)
(* shared by reference between two containers (the options of a control,   *)
(* which are stored in _controls and also passed as an argument of the     *)
(* call record) lives in the heap objs and is referred to by its index.    *)
(* Floats are integers: an opacity is a percentage (100 is 1.0).           *)
(***************************************************************************)
EXTENDS Integers, Sequences, FiniteSets, TLC

\* ------------------------------------------------------------- bounds ----

\* The number of host operations performed on one widget after construction.
MaxOps == 3

\* The number of inbox changes and of handler registrations of one run.
MaxEvents == 3
MaxHandlers == 3

\* ------------------------------------------------------------ domains ----

LayerIds == {"a", "1"}
SourceIds == {"s"}
LayerTypes == {"circle", "symbol"}
LayerDefs(id) == {[id |-> id, type |-> t, source |-> "s"] : t \in LayerTypes}
SourceDefs == {[type |-> "geojson", data |-> d] : d \in {"d1", "d2"}}
Positions == {"top-right", "top-left"}
ControlTypes == {"navigation"}
NoDef == [none |-> TRUE]
None == [none |-> TRUE]
EmptyDict == [x \in {} |-> TRUE]
\* The (opacity, visible) pairs a layer is added with: the defaults, and both changed.
Shown == {<<100, TRUE>>, <<50, FALSE>>}
Lats == {51}
Lngs == {-1}
Zooms == {14}

EventTypes == {"click", "moveend"}
\* The callbacks a caller registers; "bad" raises when it is called.
Callbacks == {"f", "g", "bad"}
Raises(callback) == callback = "bad"

\* The layers argument of add_layer_control: every layer, or the listed ones.
LayerFilters == {None, [list |-> <<"a">>]}
CtorControls == {<<>>, <<[type |-> "navigation", position |-> "top-right"]>>}

\* ------------------------------------------------- Python dict helpers ----

RECURSIVE IndexOf(_, _, _)
IndexOf(d, key, i) ==
    IF i > Len(d) THEN 0
    ELSE IF d[i].k = key THEN i ELSE IndexOf(d, key, i + 1)

Keys(d) == [i \in 1..Len(d) |-> d[i].k]
KeySet(d) == {d[i].k : i \in 1..Len(d)}
Has(d, key) == IndexOf(d, key, 1) # 0
Get(d, key) == d[IndexOf(d, key, 1)].v

\* d[key] = value
\* An assignment that moves a key it replaces to the end of the order.
DictSet_moving(d, key, value) ==
    SelectSeq(d, LAMBDA entry : entry.k # key) \o <<[k |-> key, v |-> value]>>

DictSet(d, key, value) ==
    IF Has(d, key)
    THEN [d EXCEPT ![IndexOf(d, key, 1)] = [k |-> key, v |-> value]]
    ELSE Append(d, [k |-> key, v |-> value])

\* del d[key], for a key that is present
DictDel(d, key) ==
    LET i == IndexOf(d, key, 1)
    IN SubSeq(d, 1, i - 1) \o SubSeq(d, i + 1, Len(d))

\* ---------------------------------------------------------- variables ----

VARIABLES
    cls,                 \* the class of the widget: "MapWidget" or "MapLibreMap"
    center, zoom, bearing, pitch, style,
    access_token,        \* the token trait of MapboxMap and CesiumMap, None in other classes
    _layers, _sources, _controls,
    _js_calls, _js_method_counter,
    layer_dict, _layer_dict,
    surface_layer_dict,  \* the value of _layer_dict the surface has received last
    objs,                \* the heap of option dicts shared by reference
    appended,            \* history: the content of each record as call_js_method appended it
    nops,                \* history: the number of host operations performed
    lastOp,              \* history: the last operation and the state it started from
    lastLayer, lastSource, \* history: the definition of the last add per id (NoDef after a remove)
    _js_events,          \* the synchronized value of the event inbox
    _event_handlers,     \* event type -> the callbacks registered, in registration order
    dispatched,          \* history: the handler invocations of the last drain, in order
    delivered,           \* history: the handler invocations of all drains, in order
    raised,              \* history: whether the last drain let an exception out
    published,           \* history: the number of events the surface has published
    document,            \* the document of the last to_html, None before the first
    other,               \* a second widget instance, None where there is one widget
    _draw_data,          \* MapLibreMap trait: the features of the draw control
    _terra_draw_data,    \* MapLibreMap trait: the features of the Terra Draw control
    pull,                \* where a call of get_draw_data / get_terra_draw_data stands
    inbound,             \* the synchronization messages of the surface the host has not processed
    snapshot,            \* the dict a caller holds from get_layers / get_sources
    compare,             \* a MapCompare widget, None where there is none
    drain                \* where the observer of _js_events stands when it runs handler by handler

widget == <<cls, center, zoom, bearing, pitch, style, access_token, _layers, _sources, _controls,
            _js_calls, _js_method_counter, layer_dict, _layer_dict, surface_layer_dict, objs,
            appended>>
history == <<nops, lastOp, lastLayer, lastSource>>
inbox == <<_js_events, _event_handlers, dispatched, delivered, raised, published>>
draw == <<_draw_data, _terra_draw_data, pull, inbound>>
outer == <<other, draw, snapshot, compare, drain>>
vars == <<widget, history, inbox, document, outer>>

\* The widget object as one value, so that a method is an operator from the
\* object before the call to the object after it.
Self ==
    [cls |-> cls, center |-> center, zoom |-> zoom, bearing |-> bearing,
     pitch |-> pitch, style |-> style, access_token |-> access_token,
     _layers |-> _layers, _sources |-> _sources, _controls |-> _controls,
     _js_calls |-> _js_calls, _js_method_counter |-> _js_method_counter,
     layer_dict |-> layer_dict, _layer_dict |-> _layer_dict,
     surface_layer_dict |-> surface_layer_dict,
     objs |-> objs, appended |-> appended]

Becomes(self) ==
    /\ cls' = self.cls
    /\ center' = self.center
    /\ zoom' = self.zoom
    /\ bearing' = self.bearing
    /\ pitch' = self.pitch
    /\ style' = self.style
    /\ access_token' = self.access_token
    /\ _layers' = self._layers
    /\ _sources' = self._sources
    /\ _controls' = self._controls
    /\ _js_calls' = self._js_calls
    /\ _js_method_counter' = self._js_method_counter
    /\ layer_dict' = self.layer_dict
    /\ _layer_dict' = self._layer_dict
    /\ surface_layer_dict' = self.surface_layer_dict
    /\ objs' = self.objs
    /\ appended' = self.appended

\* The State Store of the spec: the viewport and the persisted mappings.
Store(self) ==
    [center |-> self.center, zoom |-> self.zoom, bearing |-> self.bearing,
     pitch |-> self.pitch, _layers |-> self._layers, _sources |-> self._sources]

\* ------------------------------------------------------ the call queue ----

\* The content of a call record with its arguments dereferenced: what a
\* reader of the record (the serializer, the surface) sees.
DerefArg(heap, x) == IF "ref" \in DOMAIN x THEN heap[x.ref] ELSE x
Deref(heap, rec) ==
    [id |-> rec.id, method |-> rec.method,
     args |-> [i \in 1..Len(rec.args) |-> DerefArg(heap, rec.args[i])]]
DerefAll(heap, calls) == [i \in 1..Len(calls) |-> Deref(heap, calls[i])]

\* A string argument of a call, boxed so that every argument is a record.
Str(x) == [str |-> x]
Num(x) == [num |-> x]

\* call_js_method numbering a record by the length of the synchronized list.
call_js_method_by_length(self, method_name, args) ==
    LET call_data == [id |-> Len(self._js_calls),
                      method |-> method_name,
                      args |-> args]
    IN [self EXCEPT
          !._js_method_counter = @ + 1,
          !._js_calls = Append(@, call_data),
          !.appended = Append(@, Deref(self.objs, call_data))]

\* MapWidget.call_js_method(method_name, *args)
call_js_method(self, method_name, args) ==
    LET call_data == [id |-> self._js_method_counter,
                      method |-> method_name,
                      args |-> args]
    IN [self EXCEPT
          !._js_method_counter = @ + 1,
          !._js_calls = Append(@, call_data),
          !.appended = Append(@, Deref(self.objs, call_data))]

\* --------------------------------------------------- MapWidget methods ----

set_center(self, lat, lng) == [self EXCEPT !.center = <<lat, lng>>]

set_zoom(self, z) == [self EXCEPT !.zoom = z]

\* fly_to that also stores the target as the viewport.
fly_to_and_store(self, lat, lng, z) ==
    LET options == IF z = None
                   THEN [center |-> <<lat, lng>>]
                   ELSE [center |-> <<lat, lng>>, zoom |-> z.num]
    IN call_js_method([self EXCEPT !.center = <<lat, lng>>], "flyTo", <<options>>)

fly_to(self, lat, lng, z) ==
    LET options == IF z = None
                   THEN [center |-> <<lat, lng>>]
                   ELSE [center |-> <<lat, lng>>, zoom |-> z.num]
    IN call_js_method(self, "flyTo", <<options>>)

MapWidget_add_layer(self, layer_id, layer_config) ==
    LET current_layers == DictSet(self._layers, layer_id, layer_config)
        stored == [self EXCEPT !._layers = current_layers]
    IN call_js_method(stored, "addLayer", <<layer_config, Str(layer_id)>>)

\* remove_layer that enqueues the removal and keeps the persisted entry.
MapWidget_remove_layer_keeping(self, layer_id) ==
    call_js_method(self, "removeLayer", <<Str(layer_id)>>)

MapWidget_remove_layer(self, layer_id) ==
    LET stored == IF Has(self._layers, layer_id)
                  THEN [self EXCEPT !._layers = DictDel(@, layer_id)]
                  ELSE self
    IN call_js_method(stored, "removeLayer", <<Str(layer_id)>>)

add_source(self, source_id, source_config) ==
    LET current_sources == DictSet(self._sources, source_id, source_config)
        stored == [self EXCEPT !._sources = current_sources]
    IN call_js_method(stored, "addSource", <<Str(source_id), source_config>>)

\* remove_source that also removes the layers that name the source.
remove_source_cascading(self, source_id) ==
    LET stored == IF Has(self._sources, source_id)
                  THEN [self EXCEPT
                          !._sources = DictDel(@, source_id),
                          !._layers = SelectSeq(@, LAMBDA entry : entry.v.source # source_id)]
                  ELSE self
    IN call_js_method(stored, "removeSource", <<Str(source_id)>>)

remove_source(self, source_id) ==
    LET stored == IF Has(self._sources, source_id)
                  THEN [self EXCEPT !._sources = DictDel(@, source_id)]
                  ELSE self
    IN call_js_method(stored, "removeSource", <<Str(source_id)>>)

\* ------------------------------------------------- MapLibreMap methods ----

set_bearing(self, b) == [self EXCEPT !.bearing = b]

set_pitch(self, p) == [self EXCEPT !.pitch = p]

add_marker(self, lat, lng, popup) ==
    call_js_method(self, "addMarker", <<[coordinates |-> <<lng, lat>>, popup |-> popup]>>)

fit_bounds(self, bounds, padding) ==
    call_js_method(self, "fitBounds", <<[bounds |-> bounds], [padding |-> padding]>>)

\* PotreeMap.take_screenshot()
take_screenshot(self) == call_js_method(self, "takeScreenshot", <<>>)

set_layout_property(self, layer_id, name, value) ==
    call_js_method(self, "setLayoutProperty", <<Str(layer_id), Str(name), value>>)

set_paint_property(self, layer_id, name, value) ==
    call_js_method(self, "setPaintProperty", <<Str(layer_id), Str(name), value>>)

\* The layers of the basemap style document, as get_style_layers() returns
\* them; the style itself is fetched from outside the program.
StyleLayers == <<[id |-> "land", type |-> "fill"], [id |-> "label", type |-> "symbol"]>>

get_style_layers(self) == StyleLayers

\* The layerStates a layer control derives from layer_dict, for its filter.
RECURSIVE StatesOf(_, _, _, _)
StatesOf(ldict, target_layers, i, layer_states) ==
    IF i > Len(target_layers) THEN layer_states
    ELSE LET layer_id == target_layers[i]
         IN IF Has(ldict, layer_id) /\ layer_id # "Background"
            THEN LET layer_info == Get(ldict, layer_id)
                 IN StatesOf(ldict, target_layers, i + 1,
                             DictSet(layer_states, layer_id,
                                     [visible |-> layer_info.visible,
                                      opacity |-> layer_info.opacity,
                                      name |-> layer_id]))
            ELSE StatesOf(ldict, target_layers, i + 1, layer_states)

LayerStates(ldict, layers_filter) ==
    LET target_layers == IF layers_filter = None THEN Keys(ldict) ELSE layers_filter.list
        background == IF layers_filter = None
                         \/ \E i \in 1..Len(target_layers) : target_layers[i] = "Background"
                      THEN <<[k |-> "Background",
                              v |-> [visible |-> TRUE, opacity |-> 100, name |-> "Background"]]>>
                      ELSE <<>>
    IN StatesOf(ldict, target_layers, 1, background)

\* self._layer_dict = dict(self.layer_dict): the trait takes the value; it
\* notifies its observers, and the widget sends the value to the surface,
\* when the value differs from the one it holds.
Set_layer_dict(self, value) ==
    [self EXCEPT !._layer_dict = value,
                 !.surface_layer_dict = IF value = self._layer_dict THEN @ ELSE value]

\* self.layer_dict[layer_id][name] = value.  dict(self.layer_dict) copies the
\* outer dict alone, so the dict written is also the one the value of the
\* trait holds under layer_id.
SetLayerInfo(self, layer_id, name, value) ==
    [self EXCEPT
       !.layer_dict = DictSet(@, layer_id, [Get(@, layer_id) EXCEPT ![name] = value]),
       !._layer_dict = IF Has(@, layer_id)
                       THEN DictSet(@, layer_id, [Get(@, layer_id) EXCEPT ![name] = value])
                       ELSE @]

\* MapLibreMap._update_layer_controls(): the loop over self._controls.
RECURSIVE UpdateControlsFrom(_, _)
UpdateControlsFrom(self, i) ==
    IF i > Len(self._controls) THEN self
    ELSE LET control_config == self._controls[i].v
         IN IF control_config.type = "layer_control"
            THEN LET ref == control_config.options.ref
                     control_options == self.objs[ref]
                     layer_states == LayerStates(self.layer_dict, control_options.layers)
                 IN UpdateControlsFrom(
                        [self EXCEPT !.objs[ref] =
                            ("layerStates" :> layer_states) @@ control_options],
                        i + 1)
            ELSE UpdateControlsFrom(self, i + 1)

_update_layer_controls(self) ==
    LET updated == UpdateControlsFrom(self, 1)
    IN Set_layer_dict(updated, updated.layer_dict)

\* for layer in self.get_style_layers(): self.set_layout_property(layer["id"], ...)
RECURSIVE StyleVisibility(_, _, _)
StyleVisibility(self, i, visibility) ==
    IF i > Len(get_style_layers(self)) THEN self
    ELSE StyleVisibility(
             set_layout_property(self, get_style_layers(self)[i].id, "visibility",
                                 Str(visibility)),
             i + 1, visibility)

set_visibility(self, layer_id, visible) ==
    LET visibility == IF visible THEN "visible" ELSE "none"
        called == IF layer_id = "Background"
                  THEN StyleVisibility(self, 1, visibility)
                  ELSE set_layout_property(self, layer_id, "visibility", Str(visibility))
    IN IF Has(called.layer_dict, layer_id)
       THEN _update_layer_controls(SetLayerInfo(called, layer_id, "visible", visible))
       ELSE called

get_layer_type(self, layer_id) ==
    IF Has(self._layers, layer_id) THEN Get(self._layers, layer_id).type ELSE "None"

\* The paint records set_opacity enqueues for one layer of the given type.
OpacityCalls(self, layer_id, layer_type, opacity) ==
    IF layer_type # "symbol"
    THEN set_paint_property(self, layer_id, layer_type \o "-opacity", Num(opacity))
    ELSE set_paint_property(
             set_paint_property(self, layer_id, "icon-opacity", Num(opacity)),
             layer_id, "text-opacity", Num(opacity))

RECURSIVE StyleOpacity(_, _, _)
StyleOpacity(self, i, opacity) ==
    IF i > Len(get_style_layers(self)) THEN self
    ELSE LET layer == get_style_layers(self)[i]
         IN StyleOpacity(OpacityCalls(self, layer.id, layer.type, opacity), i + 1, opacity)

set_opacity(self, layer_id, opacity) ==
    IF layer_id = "Background" THEN StyleOpacity(self, 1, opacity)
    ELSE IF Has(self.layer_dict, layer_id)
    THEN LET layer_type == Get(self.layer_dict, layer_id).layer.type
             tracked == _update_layer_controls(
                            SetLayerInfo(self, layer_id, "opacity", opacity))
         IN OpacityCalls(tracked, layer_id, layer_type, opacity)
    ELSE IF \E i \in 1..Len(StyleLayers) : StyleLayers[i].id = layer_id
    THEN LET layer == CHOOSE l \in {StyleLayers[i] : i \in 1..Len(StyleLayers)} :
                          l.id = layer_id
         IN OpacityCalls(self, layer_id, layer.type, opacity)
    ELSE OpacityCalls(self, layer_id, get_layer_type(self, layer_id), opacity)

\* self._layers[layer_id]["type"] of get_layer_type, the first statement of
\* set_opacity, raises KeyError for a definition without a 'type' field; the
\* exception leaves add_layer at its set_opacity call.
KeyError(layer) == "type" \notin DOMAIN layer

\* add_layer without the refresh of the layer controls at its end.
MapLibreMap_add_layer_unrefreshed(self, layer_id, layer, before_id, opacity, visible) ==
    LET stored == [self EXCEPT !._layers = DictSet(@, layer_id, layer)]
        called == call_js_method(stored, "addLayer", <<layer, Str(layer_id)>>)
        shown == set_visibility(called, layer_id, visible)
        faded == set_opacity(shown, layer_id, opacity)
        tracked == [faded EXCEPT
                      !.layer_dict = DictSet(@, layer_id,
                                             [layer |-> layer, opacity |-> opacity,
                                              visible |-> visible, type |-> layer.type])]
    IN Set_layer_dict(tracked, tracked.layer_dict)

MapLibreMap_add_layer(self, layer_id, layer, before_id, opacity, visible) ==
    LET stored == [self EXCEPT !._layers = DictSet(@, layer_id, layer)]
        called == IF before_id # None
                  THEN call_js_method(stored, "addLayer", <<layer, before_id>>)
                  ELSE call_js_method(stored, "addLayer", <<layer, Str(layer_id)>>)
        shown == set_visibility(called, layer_id, visible)
        faded == set_opacity(shown, layer_id, opacity)
        tracked == [faded EXCEPT
                      !.layer_dict = DictSet(@, layer_id,
                                             [layer |-> layer, opacity |-> opacity,
                                              visible |-> visible, type |-> layer.type])]
        synced == Set_layer_dict(tracked, tracked.layer_dict)
    IN IF KeyError(layer) THEN shown ELSE _update_layer_controls(synced)

\* remove_layer without the refresh of the layer controls at its end.
MapLibreMap_remove_layer_unrefreshed(self, layer_id) ==
    LET called == call_js_method(self, "removeLayer", <<Str(layer_id)>>)
        removed == IF Has(called._layers, layer_id)
                   THEN [called EXCEPT !._layers = DictDel(@, layer_id)]
                   ELSE called
        untracked == IF Has(removed.layer_dict, layer_id)
                     THEN [removed EXCEPT !.layer_dict = DictDel(@, layer_id)]
                     ELSE removed
    IN Set_layer_dict(untracked, untracked.layer_dict)

MapLibreMap_remove_layer(self, layer_id) ==
    LET called == call_js_method(self, "removeLayer", <<Str(layer_id)>>)
        removed == IF Has(called._layers, layer_id)
                   THEN [called EXCEPT !._layers = DictDel(@, layer_id)]
                   ELSE called
        untracked == IF Has(removed.layer_dict, layer_id)
                     THEN [removed EXCEPT !.layer_dict = DictDel(@, layer_id)]
                     ELSE removed
    IN _update_layer_controls(untracked)

\* ------------------------------------------------------------ controls ----

\* control_options = options or {}: the caller's dict itself when it is given
\* and not empty, a new dict otherwise.  Returns the heap and the reference.
OptionsOrNew(heap, options) ==
    IF options = None
    THEN [objs |-> Append(heap, EmptyDict), ref |-> Len(heap) + 1]
    ELSE [objs |-> heap, ref |-> options.ref]

ControlKey(control_type, position) == control_type \o "_" \o position

MapLibreMap_add_control(self, control_type, position, options) ==
    LET got == OptionsOrNew(self.objs, options)
        control_options == [ref |-> got.ref]
        heap == [got.objs EXCEPT ![got.ref] = ("position" :> position) @@ @]
        control_key == ControlKey(control_type, position)
        stored == [self EXCEPT
                     !.objs = heap,
                     !._controls = DictSet(@, control_key,
                                           [type |-> control_type,
                                            position |-> position,
                                            options |-> control_options])]
    IN call_js_method(stored, "addControl", <<Str(control_type), control_options>>)

\* remove_control that looks the control up by its type alone.
remove_control_by_type(self, control_type, position) ==
    LET removed == [self EXCEPT
                      !._controls = SelectSeq(@, LAMBDA entry : entry.v.type # control_type)]
    IN call_js_method(removed, "removeControl", <<Str(control_type), Str(position)>>)

remove_control(self, control_type, position) ==
    LET control_key == ControlKey(control_type, position)
        removed == IF Has(self._controls, control_key)
                   THEN [self EXCEPT !._controls = DictDel(@, control_key)]
                   ELSE self
    IN call_js_method(removed, "removeControl", <<Str(control_type), Str(position)>>)

add_layer_control(self, position, collapsed, layers, options) ==
    LET got == OptionsOrNew(self.objs, options)
        control_options == [ref |-> got.ref]
        layer_states == LayerStates(self.layer_dict, layers)
        heap == [got.objs EXCEPT ![got.ref] =
                    ("layerStates" :> layer_states)
                    @@ [position |-> position, collapsed |-> collapsed, layers |-> layers]
                    @@ @]
        control_key == ControlKey("layer_control", position)
        stored == [self EXCEPT
                     !.objs = heap,
                     !._controls = DictSet(@, control_key,
                                           [type |-> "layer_control",
                                            position |-> position,
                                            options |-> control_options])]
    IN call_js_method(stored, "addControl", <<Str("layer_control"), control_options>>)

\* MapboxMap.add_control: the control is enqueued and not persisted.
MapboxMap_add_control(self, control_type, position, options) ==
    LET got == OptionsOrNew(self.objs, options)
        control_options == [ref |-> got.ref]
        heap == [got.objs EXCEPT ![got.ref] = ("position" :> position) @@ @]
    IN call_js_method([self EXCEPT !.objs = heap], "addControl",
                      <<Str(control_type), control_options>>)

\* -------------------------------------------------------- construction ----

\* for control, position in controls.items(): self.add_control(control, position)
RECURSIVE CtorAddControls(_, _, _)
CtorAddControls(self, controls, i) ==
    IF i > Len(controls) THEN self
    ELSE CtorAddControls(
             MapLibreMap_add_control(self, controls[i].type, controls[i].position, None),
             controls, i + 1)

Background ==
    [layer |-> [id |-> "Background", type |-> "background"],
     opacity |-> 100, visible |-> TRUE, type |-> "background", color |-> None]

\* MapWidget.__init__ and the trait defaults
MapWidget__init__(class) ==
    [cls |-> class, center |-> <<0, 0>>, zoom |-> 2, bearing |-> 0, pitch |-> 0,
     style |-> "",
     access_token |-> IF class \in {"MapboxMap", "CesiumMap"} THEN Str("") ELSE None,
     _layers |-> <<>>, _sources |-> <<>>, _controls |-> <<>>,
     _js_calls |-> <<>>, _js_method_counter |-> 0,
     layer_dict |-> <<>>, _layer_dict |-> <<>>, surface_layer_dict |-> <<>>,
     objs |-> <<>>, appended |-> <<>>]

MapLibreMap__init__(controls) ==
    LET base == [MapWidget__init__("MapLibreMap") EXCEPT
                    !.center = <<0, 20>>, !.zoom = 1, !.style = "dark-matter"]
        withControls == CtorAddControls(base, controls, 1)
        tracked == [withControls EXCEPT
                      !.layer_dict = DictSet(<<>>, "Background", Background)]
    IN Set_layer_dict(tracked, tracked.layer_dict)

\* No observer call is on the stack.
NoDrain == [pc |-> "idle", i |-> 0, j |-> 0, began |-> [t \in EventTypes |-> <<>>]]

InitLog ==
    /\ nops = 0
    /\ lastOp = [name |-> "init"]
    /\ lastLayer = [id \in LayerIds |-> NoDef]
    /\ lastSource = [id \in SourceIds |-> NoDef]
    /\ _js_events = <<>>
    /\ _event_handlers = [t \in EventTypes |-> <<>>]
    /\ dispatched = <<>>
    /\ delivered = <<>>
    /\ raised = FALSE
    /\ published = 0
    /\ document = None
    /\ _draw_data = EmptyDict
    /\ _terra_draw_data = EmptyDict
    /\ pull = [pc |-> "idle"]
    /\ inbound = <<>>
    /\ snapshot = None
    /\ drain = NoDrain

\* One widget, and nothing beside it.
InitHistory ==
    /\ InitLog
    /\ other = None
    /\ compare = None

IsWidget(self) ==
    /\ cls = self.cls
    /\ center = self.center
    /\ zoom = self.zoom
    /\ bearing = self.bearing
    /\ pitch = self.pitch
    /\ style = self.style
    /\ access_token = self.access_token
    /\ _layers = self._layers
    /\ _sources = self._sources
    /\ _controls = self._controls
    /\ _js_calls = self._js_calls
    /\ _js_method_counter = self._js_method_counter
    /\ layer_dict = self.layer_dict
    /\ _layer_dict = self._layer_dict
    /\ surface_layer_dict = self.surface_layer_dict
    /\ objs = self.objs
    /\ appended = self.appended

\* ---------------------------------------------------- host operations ----

\* One public method call on the widget: the widget becomes what the method
\* returns, and the history records the call.
HostStep(name, args, self) ==
    /\ nops < MaxOps
    /\ nops' = nops + 1
    /\ lastOp' = [name |-> name, args |-> args]
    /\ Becomes(self)
    /\ UNCHANGED <<inbox, document, outer>>

\* Dynamic dispatch of add_layer / remove_layer on the class of the widget.
add_layer(self, layer_id, layer, opacity, visible) ==
    IF self.cls = "MapLibreMap"
    THEN MapLibreMap_add_layer(self, layer_id, layer, None, opacity, visible)
    ELSE MapWidget_add_layer(self, layer_id, layer)

remove_layer(self, layer_id) ==
    IF self.cls = "MapLibreMap"
    THEN MapLibreMap_remove_layer(self, layer_id)
    ELSE MapWidget_remove_layer(self, layer_id)

AddLayer ==
    \E layer_id \in LayerIds : \E layer \in LayerDefs(layer_id) :
    \E shown \in Shown :
      LET opacity == shown[1]
          visible == shown[2]
      IN
        /\ cls = "MapLibreMap" \/ (opacity = 100 /\ visible)
        /\ HostStep("add_layer",
                    [layer_id |-> layer_id, layer |-> layer,
                     opacity |-> opacity, visible |-> visible],
                    add_layer(Self, layer_id, layer, opacity, visible))
        /\ lastLayer' = [lastLayer EXCEPT ![layer_id] = layer]
        /\ UNCHANGED lastSource

RemoveLayer ==
    \E layer_id \in LayerIds :
        /\ HostStep("remove_layer", [layer_id |-> layer_id], remove_layer(Self, layer_id))
        /\ lastLayer' = [lastLayer EXCEPT ![layer_id] = NoDef]
        /\ UNCHANGED lastSource

AddSource ==
    \E source_id \in SourceIds : \E source_config \in SourceDefs :
        /\ HostStep("add_source", [source_id |-> source_id, source_config |-> source_config],
                    add_source(Self, source_id, source_config))
        /\ lastSource' = [lastSource EXCEPT ![source_id] = source_config]
        /\ UNCHANGED lastLayer

RemoveSource ==
    \E source_id \in SourceIds :
        /\ HostStep("remove_source", [source_id |-> source_id],
                    remove_source(Self, source_id))
        /\ lastSource' = [lastSource EXCEPT ![source_id] = NoDef]
        /\ UNCHANGED lastLayer

SetCenter ==
    \E lat \in Lats : \E lng \in Lngs :
        /\ HostStep("set_center", [lat |-> lat, lng |-> lng], set_center(Self, lat, lng))
        /\ UNCHANGED <<lastLayer, lastSource>>

SetZoom ==
    \E z \in Zooms :
        /\ HostStep("set_zoom", [zoom |-> z], set_zoom(Self, z))
        /\ UNCHANGED <<lastLayer, lastSource>>

SetBearing ==
    \E b \in {90} :
        /\ cls = "MapLibreMap"
        /\ HostStep("set_bearing", [bearing |-> b], set_bearing(Self, b))
        /\ UNCHANGED <<lastLayer, lastSource>>

SetPitch ==
    \E p \in {45} :
        /\ cls = "MapLibreMap"
        /\ HostStep("set_pitch", [pitch |-> p], set_pitch(Self, p))
        /\ UNCHANGED <<lastLayer, lastSource>>

FlyTo ==
    \E lat \in Lats : \E lng \in Lngs : \E z \in {None} \cup {Num(x) : x \in Zooms} :
        /\ HostStep("fly_to", [lat |-> lat, lng |-> lng, zoom |-> z],
                    fly_to(Self, lat, lng, z))
        /\ UNCHANGED <<lastLayer, lastSource>>

FitBounds ==
    \E bounds \in {<<<<50, -2>>, <<52, 0>>>>} : \E padding \in {50} :
        /\ cls = "MapLibreMap"
        /\ HostStep("fit_bounds", [bounds |-> bounds, padding |-> padding],
                    fit_bounds(Self, bounds, padding))
        /\ UNCHANGED <<lastLayer, lastSource>>

AddMarker ==
    \E lat \in Lats : \E lng \in Lngs : \E popup \in {Str("hello")} :
        /\ cls = "MapLibreMap"
        /\ HostStep("add_marker", [lat |-> lat, lng |-> lng, popup |-> popup],
                    add_marker(Self, lat, lng, popup))
        /\ UNCHANGED <<lastLayer, lastSource>>

TakeScreenshot ==
    /\ cls = "MapWidget"
    /\ HostStep("take_screenshot", None, take_screenshot(Self))
    /\ UNCHANGED <<lastLayer, lastSource>>

CallJsMethod ==
    \E method_name \in {"testMethod"} : \E args \in {<<Num(1), Num(2)>>} :
        /\ HostStep("call_js_method", [method_name |-> method_name, args |-> args],
                    call_js_method(Self, method_name, args))
        /\ UNCHANGED <<lastLayer, lastSource>>

\* The surface (or the transport) replaces the synchronized value of
\* _js_calls: the list is emptied, or cut down to its newest record.
SurfaceSetCalls ==
    /\ _js_calls # <<>>
    /\ \E value \in {<<>>, <<_js_calls[Len(_js_calls)]>>} :
        Becomes([Self EXCEPT !._js_calls = value])
    /\ lastOp' = [name |-> "surface_set_calls"]
    /\ UNCHANGED <<nops, lastLayer, lastSource, inbox, document, outer>>

Init ==
    /\ \E class \in {"MapWidget", "MapLibreMap"} :
         IF class = "MapWidget"
         THEN IsWidget(MapWidget__init__(class))
         ELSE \E controls \in CtorControls : IsWidget(MapLibreMap__init__(controls))
    /\ InitHistory

Next ==
    \/ AddLayer
    \/ RemoveLayer
    \/ AddSource
    \/ RemoveSource
    \/ SetCenter
    \/ SetZoom
    \/ SetBearing
    \/ SetPitch
    \/ FlyTo
    \/ FitBounds
    \/ AddMarker
    \/ TakeScreenshot
    \/ CallJsMethod

Spec == Init /\ [][Next]_vars

add_control(self, control_type, position, options) ==
    IF self.cls = "MapLibreMap"
    THEN MapLibreMap_add_control(self, control_type, position, options)
    ELSE MapboxMap_add_control(self, control_type, position, options)

AddControl ==
    \E control_type \in ControlTypes : \E position \in Positions :
    \E options \in {None} :
        /\ cls \in {"MapLibreMap", "MapboxMap"}
        /\ HostStep("add_control",
                    [control_type |-> control_type, position |-> position,
                     options |-> options],
                    add_control(Self, control_type, position, options))
        /\ UNCHANGED <<lastLayer, lastSource>>

RemoveControl ==
    \E control_type \in ControlTypes \cup {"layer_control"} : \E position \in Positions :
        /\ cls = "MapLibreMap"
        /\ HostStep("remove_control", [control_type |-> control_type, position |-> position],
                    remove_control(Self, control_type, position))
        /\ UNCHANGED <<lastLayer, lastSource>>

AddLayerControl ==
    \E position \in {"top-right"} : \E layers \in LayerFilters :
        /\ cls = "MapLibreMap"
        /\ HostStep("add_layer_control", [position |-> position, layers |-> layers],
                    add_layer_control(Self, position, TRUE, layers, None))
        /\ UNCHANGED <<lastLayer, lastSource>>

InitMapLibre ==
    /\ \E controls \in CtorControls : IsWidget(MapLibreMap__init__(controls))
    /\ InitHistory

\* A MapLibreMap with its layers and controls.
NextControls ==
    \/ AddLayer
    \/ RemoveLayer
    \/ AddControl
    \/ RemoveControl
    \/ AddLayerControl

SpecControls == InitMapLibre /\ [][NextControls]_vars

Opacities == {50, 100}

SetVisibility ==
    \E layer_id \in LayerIds \cup {"Background"} : \E visible \in BOOLEAN :
        /\ cls = "MapLibreMap"
        /\ HostStep("set_visibility", [layer_id |-> layer_id, visible |-> visible],
                    set_visibility(Self, layer_id, visible))
        /\ UNCHANGED <<lastLayer, lastSource>>

SetOpacity ==
    \E layer_id \in LayerIds \cup {"Background"} : \E opacity \in Opacities :
        /\ cls = "MapLibreMap"
        /\ HostStep("set_opacity", [layer_id |-> layer_id, opacity |-> opacity],
                    set_opacity(Self, layer_id, opacity))
        /\ UNCHANGED <<lastLayer, lastSource>>

\* A MapLibreMap with a layer control and the operations that refresh it.
NextLayerControl ==
    \/ AddLayer
    \/ RemoveLayer
    \/ AddLayerControl
    \/ SetVisibility
    \/ SetOpacity

SpecLayerControl == InitMapLibre /\ [][NextLayerControl]_vars

\* The call queue with the surface replacing its synchronized value.
NextQueue ==
    \/ AddLayer
    \/ RemoveLayer
    \/ FlyTo
    \/ CallJsMethod
    \/ SurfaceSetCalls

SpecQueue == Init /\ [][NextQueue]_vars

\* ----------------------------------------------------- the event inbox ----

\* MapWidget.on_map_event(event_type, callback)
on_map_event(handlers, event_type, callback) ==
    [handlers EXCEPT ![event_type] = Append(@, callback)]

\* for handler in self._event_handlers[event_type]: handler(event)
\* An exception of a handler leaves the loop; run is the state of the drain:
\* the invocations made so far and whether an exception is on its way out.
RECURSIVE CallHandlers(_, _, _, _)
CallHandlers(run, handlers, j, event) ==
    IF run.raised \/ j > Len(handlers) THEN run
    ELSE LET handler == handlers[j]
             called == [run EXCEPT !.calls = Append(@, [handler |-> handler, event |-> event])]
         IN IF Raises(handler)
            THEN [called EXCEPT !.raised = TRUE]
            ELSE CallHandlers(called, handlers, j + 1, event)

\* for event in events: ...
RECURSIVE HandleEvents(_, _, _, _)
HandleEvents(run, handlers, events, i) ==
    IF run.raised \/ i > Len(events) THEN run
    ELSE LET event == events[i]
             event_type == event.type
         IN HandleEvents(CallHandlers(run, handlers[event_type], 1, event),
                         handlers, events, i + 1)

\* MapWidget._handle_js_events(change), the observer of _js_events
_handle_js_events(handlers, change) ==
    HandleEvents([calls |-> <<>>, raised |-> FALSE], handlers, change.new, 1)

OnMapEvent ==
    \E event_type \in EventTypes : \E callback \in Callbacks :
        /\ Len(_event_handlers["click"]) + Len(_event_handlers["moveend"]) < MaxHandlers
        /\ _event_handlers' = on_map_event(_event_handlers, event_type, callback)
        /\ lastOp' = [name |-> "on_map_event",
                      args |-> [event_type |-> event_type, callback |-> callback]]
        /\ UNCHANGED <<widget, nops, lastLayer, lastSource, document, outer>>
        /\ UNCHANGED <<_js_events, dispatched, delivered, raised, published>>

\* The surface assigns a new value to _js_events; the assignment of a value
\* that differs from the present one runs the observer before it returns.
SetEvents(value, n) ==
    /\ value # _js_events
    /\ _js_events' = value
    /\ LET run == _handle_js_events(_event_handlers, [new |-> value])
       IN /\ dispatched' = run.calls
          /\ delivered' = delivered \o run.calls
          /\ raised' = run.raised
    /\ published' = published + n
    /\ UNCHANGED <<widget, nops, lastLayer, lastSource, _event_handlers, document, outer>>

NewEvent(event_type, n) == [type |-> event_type, seq |-> n]

\* The surface appends one event to the events already in the inbox.
PublishAppend ==
    \E event_type \in EventTypes :
        /\ published < MaxEvents
        /\ SetEvents(Append(_js_events, NewEvent(event_type, published + 1)), 1)
        /\ lastOp' = [name |-> "publish_append"]

\* The surface replaces the inbox by a batch of two new events.
PublishBatch ==
    \E first \in EventTypes : \E second \in EventTypes :
        /\ published + 1 < MaxEvents
        /\ SetEvents(<<NewEvent(first, published + 1), NewEvent(second, published + 2)>>, 2)
        /\ lastOp' = [name |-> "publish_batch"]

InitMapWidget ==
    /\ IsWidget(MapWidget__init__("MapWidget"))
    /\ InitHistory

NextEvents ==
    \/ OnMapEvent
    \/ PublishAppend
    \/ PublishBatch

SpecEvents == InitMapWidget /\ [][NextEvents]_vars

\* ---------------------------------------------------------- the export ----

\* json.dumps of a controls mapping: the options are written out by value.
json_controls(heap, controls) ==
    [i \in 1..Len(controls) |->
        [k |-> controls[i].k,
         v |-> [type |-> controls[i].v.type, position |-> controls[i].v.position,
                options |-> DerefArg(heap, controls[i].v.options)]]]

\* MapWidget.to_html: the map state handed to the template of the class
map_state_of(self) ==
    LET common == [center |-> self.center, zoom |-> self.zoom, style |-> self.style,
                   bearing |-> self.bearing, pitch |-> self.pitch,
                   _layers |-> self._layers, _sources |-> self._sources]
    IN IF self.access_token = None THEN common
       ELSE ("access_token" :> self.access_token.str) @@ common

\* The to_html of the base class of maplibre.py: the snapshot holds the
\* controls too, which its template reads as mapState._controls.
base_map_state_of(self) ==
    ("_controls" :> json_controls(self.objs, self._controls)) @@ map_state_of(self)

\* The replacement fields of the f-string of LeafletMap._generate_html_template,
\* each by the name it evaluates first, in the order of the template.
LeafletTemplateFields ==
    <<"title", "map_state", "map_state", "map_state", "map_state", "tile_url",
      "json", "ok">>

\* The names in scope where the f-string is evaluated.
LeafletTemplateScope ==
    {"self", "map_state", "title", "kwargs", "tile_providers", "tile_url", "json"}

NameError == [raised |-> "NameError"]

\* LeafletMap._generate_html_template: the fields are evaluated in order and
\* a name that is in no scope raises.
LeafletMap__generate_html_template(mapState) ==
    IF \E i \in 1..Len(LeafletTemplateFields) :
          LeafletTemplateFields[i] \notin LeafletTemplateScope
    THEN NameError
    ELSE [cls |-> "LeafletMap", mapState |-> mapState]

\* No warning, whatever the token.
NoToken_never(mapState) == FALSE

\* not map_state.get('access_token')
NoToken(mapState) ==
    "access_token" \notin DOMAIN mapState \/ mapState.access_token = ""

\* MapboxMap._generate_html_template: the document, with the warning line
\* that the f-string puts above the map when there is no token.
MapboxMap__generate_html_template(mapState) ==
    [cls |-> "MapboxMap", mapState |-> mapState, warning |-> NoToken(mapState)]

NotImplementedError == [raised |-> "NotImplementedError"]

\* MapWidget._generate_html_template, which CesiumMap inherits
MapWidget__generate_html_template(mapState) == NotImplementedError

\* The value of a to_html call: the document, or the exception that left it.
to_html(self) ==
    IF self.cls = "LeafletMap"
    THEN LeafletMap__generate_html_template(map_state_of(self))
    ELSE IF self.cls = "CesiumMap"
    THEN MapWidget__generate_html_template(map_state_of(self))
    ELSE IF self.cls = "MapboxMap"
    THEN MapboxMap__generate_html_template(map_state_of(self))
    ELSE [cls |-> self.cls,
          mapState |-> IF self.cls = "MapLibreMap" THEN base_map_state_of(self)
                       ELSE map_state_of(self)]

IsDocument(doc) == "mapState" \in DOMAIN doc

\* The array index a property key stands for, -1 for any other key.
ArrayIndex(key) ==
    CASE key = "0" -> 0
      [] key = "1" -> 1
      [] key = "2" -> 2
      [] OTHER -> -1

WithIndex(d, n) == SelectSeq(d, LAMBDA entry : ArrayIndex(entry.k) = n)

\* Object.entries(d): the array-index keys in ascending order, then the other
\* keys in insertion order.
ObjectEntries(d) ==
    WithIndex(d, 0) \o WithIndex(d, 1) \o WithIndex(d, 2) \o WithIndex(d, -1)

BackendCall(method, args) == [method |-> method, args |-> args]

\* The load handler with the two loops exchanged.
LoadHandler_layers_first(mapState) ==
    LET sources == ObjectEntries(mapState._sources)
        layers == ObjectEntries(mapState._layers)
    IN [i \in 1..Len(layers) |-> BackendCall("addLayer", <<layers[i].v>>)]
       \o [i \in 1..Len(sources) |->
              BackendCall("addSource", <<Str(sources[i].k), sources[i].v>>)]

\* map.on('load', ...): the calls the handler makes on the backend, in order
LoadHandler(mapState) ==
    LET sources == ObjectEntries(mapState._sources)
        layers == ObjectEntries(mapState._layers)
    IN [i \in 1..Len(sources) |->
           BackendCall("addSource", <<Str(sources[i].k), sources[i].v>>)]
       \o [i \in 1..Len(layers) |-> BackendCall("addLayer", <<layers[i].v>>)]

\* The control types the switch of the restore block constructs from their
\* type and options alone.
RestoredTypes == {"navigation", "scale", "fullscreen", "geolocate", "attribution", "globe"}

\* Object.entries(controls).forEach(...) of maplibre.py: a control of another
\* type is reported and skipped.
RestoreControls(mapState) ==
    LET controls == ObjectEntries(mapState._controls)
        restored == SelectSeq(controls, LAMBDA entry : entry.v.type \in RestoredTypes)
    IN [i \in 1..Len(restored) |->
           BackendCall("addControl", <<Str(restored[i].v.type),
                                       [position |-> restored[i].v.position]>>)]

\* The two controls every document of anymap.py adds, with no position given.
FixedControls ==
    << BackendCall("addControl", <<Str("navigation"), EmptyDict>>),
       BackendCall("addControl", <<Str("scale"), EmptyDict>>) >>

Ready == BackendCall("load", <<>>)

\* The calls a document makes on its backend when it is opened, in order:
\* the script runs to its end, then the backend signals load.
OpenDocument(doc) ==
    IF ~IsDocument(doc) THEN <<>>
    ELSE (IF doc.cls = "MapLibreMap" THEN RestoreControls(doc.mapState)
          ELSE FixedControls)
         \o <<Ready>> \o LoadHandler(doc.mapState)

\* Whether the call at place i of the document has a try/catch of its own:
\* each source and each layer of the load handler has, and each control of
\* the restore block of maplibre.py; the two fixed controls have none.
Guarded(doc, i) ==
    \/ doc.cls = "MapLibreMap"
    \/ OpenDocument(doc)[i].method \in {"addSource", "addLayer"}

\* The places of the calls that are made when the call at place failing
\* throws: a caught failure is reported and the next call is made; an
\* uncaught one ends the top-level script, and the load handler still runs.
Executed(doc, failing) ==
    LET calls == OpenDocument(doc)
    IN IF Guarded(doc, failing)
       THEN 1..Len(calls)
       ELSE {i \in 1..Len(calls) :
               i <= failing \/ calls[i].method \in {"load", "addSource", "addLayer"}}

\* The position of a control that is added without one.
DefaultPosition(control_type) ==
    IF control_type = "scale" THEN "bottom-left" ELSE "top-right"

FreshBackend == [sources |-> {}, layers |-> {}, controls |-> {}]

\* One call applied to the backend.  A layer whose source the backend does
\* not hold is refused: the failure is reported and the next call is applied.
BackendApply(b, call) ==
    LET args == call.args
    IN CASE call.method = "addSource" -> [b EXCEPT !.sources = @ \cup {args[1].str}]
         [] call.method = "removeSource" -> [b EXCEPT !.sources = @ \ {args[1].str}]
         [] call.method = "addLayer" ->
                IF args[1].source \in b.sources
                THEN [b EXCEPT !.layers = @ \cup {args[1].id}]
                ELSE b
         [] call.method = "removeLayer" -> [b EXCEPT !.layers = @ \ {args[1].str}]
         [] call.method = "addControl" ->
                [b EXCEPT !.controls = @ \cup
                    {[type |-> args[1].str,
                      position |-> IF "position" \in DOMAIN args[2]
                                   THEN args[2].position
                                   ELSE DefaultPosition(args[1].str)]}]
         [] call.method = "removeControl" ->
                [b EXCEPT !.controls = @ \ {[type |-> args[1].str, position |-> args[2].str]}]
         [] OTHER -> b

RECURSIVE ApplyAll(_, _, _)
ApplyAll(b, calls, i) ==
    IF i > Len(calls) THEN b ELSE ApplyAll(BackendApply(b, calls[i]), calls, i + 1)

ToHtml ==
    /\ nops < MaxOps
    /\ nops' = nops + 1
    /\ lastOp' = [name |-> "to_html", args |-> <<>>]
    /\ document' = to_html(Self)
    /\ UNCHANGED <<widget, lastLayer, lastSource, inbox, outer>>

InitExport ==
    /\ \E class \in {"MapboxMap", "MapLibreMap"} :
         IF class = "MapboxMap"
         THEN IsWidget(MapWidget__init__(class))
         ELSE \E controls \in CtorControls : IsWidget(MapLibreMap__init__(controls))
    /\ InitHistory

NextExport ==
    \/ AddLayer
    \/ RemoveLayer
    \/ AddSource
    \/ RemoveSource
    \/ AddControl
    \/ RemoveControl
    \/ AddLayerControl
    \/ ToHtml

SpecExport == InitExport /\ [][NextExport]_vars

\* LeafletMap.__init__
LeafletMap__init__ ==
    [MapWidget__init__("LeafletMap") EXCEPT !.center = <<51, 0>>, !.zoom = 13]

\* The three classes that carry a document template.
InitDocuments ==
    /\ \E class \in {"MapboxMap", "MapLibreMap", "LeafletMap"} :
         CASE class = "MapboxMap" -> IsWidget(MapWidget__init__(class))
           [] class = "LeafletMap" -> IsWidget(LeafletMap__init__)
           [] OTHER -> \E controls \in CtorControls :
                          IsWidget(MapLibreMap__init__(controls))
    /\ InitHistory

NextDocuments ==
    \/ AddLayer
    \/ AddSource
    \/ ToHtml

SpecDocuments == InitDocuments /\ [][NextDocuments]_vars

\* ------------------------------------------------------- two instances ----

\* The second instance after construction: the traits and the attributes
\* that __init__ creates for it, its handler registry among them.
OtherInit ==
    ("_event_handlers" :> [t \in EventTypes |-> <<>>]) @@ MapWidget__init__("MapWidget")

\* A method of the second instance that shares the counter of the first.
OtherBecomes_sharing_counter(self) ==
    /\ other' = self
    /\ _js_method_counter' = self._js_method_counter
    /\ UNCHANGED <<cls, center, zoom, bearing, pitch, style, access_token, _layers,
                   _sources, _controls, _js_calls, layer_dict, _layer_dict, surface_layer_dict,
                   objs, appended>>

\* A method of the second instance assigns the attributes of that instance.
OtherBecomes(self) ==
    /\ other' = self
    /\ UNCHANGED widget

\* One public method call on the second instance.
OtherStep(name, args, self) ==
    /\ nops < MaxOps
    /\ nops' = nops + 1
    /\ lastOp' = [name |-> name, args |-> args, on |-> "other"]
    /\ OtherBecomes(self)
    /\ UNCHANGED <<lastLayer, lastSource, inbox, document, draw, snapshot, compare, drain>>

OtherAddLayer ==
    \E layer_id \in LayerIds : \E layer \in LayerDefs(layer_id) :
        /\ other # None
        /\ OtherStep("add_layer", [layer_id |-> layer_id, layer |-> layer],
                     MapWidget_add_layer(other, layer_id, layer))

OtherAddSource ==
    \E source_id \in SourceIds : \E source_config \in SourceDefs :
        /\ other # None
        /\ OtherStep("add_source",
                     [source_id |-> source_id, source_config |-> source_config],
                     add_source(other, source_id, source_config))

OtherSetZoom ==
    \E z \in Zooms :
        /\ other # None
        /\ OtherStep("set_zoom", [zoom |-> z], set_zoom(other, z))

OtherOnMapEvent ==
    \E event_type \in {"click"} : \E callback \in {"g"} :
        /\ OtherStep("on_map_event", [event_type |-> event_type, callback |-> callback],
                     [other EXCEPT !._event_handlers =
                         on_map_event(@, event_type, callback)])

\* The first instance registers one callback for one event type.
OnClick ==
    /\ OnMapEvent
    /\ lastOp'.args = [event_type |-> "click", callback |-> "f"]

InitInstances ==
    /\ IsWidget(MapWidget__init__("MapWidget"))
    /\ InitLog
    /\ other = OtherInit
    /\ compare = None

NextInstances ==
    \/ AddLayer
    \/ AddSource
    \/ SetZoom
    \/ OnClick
    \/ OtherAddLayer
    \/ OtherAddSource
    \/ OtherSetZoom
    \/ OtherOnMapEvent

SpecInstances == InitInstances /\ [][NextInstances]_vars

\* ------------------------------------------------------ generated ids ----

\* str(n) of a natural number
RECURSIVE Decimal(_)
Decimal(n) ==
    LET digits == <<"0", "1", "2", "3", "4", "5", "6", "7", "8", "9">>
    IN IF n < 10 THEN digits[n + 1] ELSE Decimal(n \div 10) \o digits[(n % 10) + 1]

\* f"{prefix}_{len(self._layers)}"
AutoId(prefix, self) == prefix \o "_" \o Decimal(Len(self._layers))

CesiumMap__init__ == [MapWidget__init__("CesiumMap") EXCEPT !.pitch = -90]

add_entity(self, entity_config) == call_js_method(self, "addEntity", <<entity_config>>)

remove_entity(self, entity_id) == call_js_method(self, "removeEntity", <<Str(entity_id)>>)

\* CesiumMap.add_point: the widget after the call, and the id it returns.
add_point(self, latitude, longitude, entity_id) ==
    LET id == IF entity_id = None THEN AutoId("point", self) ELSE entity_id.str
        entity_config ==
            [id |-> id,
             position |-> [longitude |-> longitude, latitude |-> latitude, height |-> 0],
             point |-> [pixelSize |-> 10, color |-> "#ffff00"]]
    IN [self |-> add_entity(self, entity_config), returned |-> id]

\* LeafletMap.add_marker
LeafletMap_add_marker(self, latlng, popup) ==
    LET marker_id == AutoId("marker", self)
        marker_config == [type |-> "marker", latlng |-> latlng, popup |-> popup]
    IN [self |-> add_layer(self, marker_id, marker_config, 100, TRUE),
        returned |-> marker_id]

\* LeafletMap.add_tile_layer
add_tile_layer(self, url_template, layer_id) ==
    LET id == IF layer_id = None THEN AutoId("tile_layer", self) ELSE layer_id.str
        layer_config == [type |-> "tile", url |-> url_template, attribution |-> ""]
    IN [self |-> add_layer(self, id, layer_config, 100, TRUE), returned |-> id]

\* A call of a method that makes up an id when the caller gives none.
IdStep(name, args, result) ==
    /\ nops < MaxOps
    /\ nops' = nops + 1
    /\ lastOp' = [name |-> name, args |-> args, returned |-> result.returned]
    /\ Becomes(result.self)
    /\ UNCHANGED <<lastLayer, lastSource, inbox, document, outer>>

AddPoint ==
    \E entity_id \in {None, Str("e")} :
        /\ cls = "CesiumMap"
        /\ IdStep("add_point", [entity_id |-> entity_id],
                  add_point(Self, 51, -1, entity_id))

\* The ids of the entities on the globe: added, and not removed since.
RECURSIVE Entities(_)
Entities(calls) ==
    IF calls = <<>> THEN {}
    ELSE LET before == Entities(SubSeq(calls, 1, Len(calls) - 1))
             last == calls[Len(calls)]
         IN CASE last.method = "addEntity" -> before \cup {last.args[1].id}
              [] last.method = "removeEntity" -> before \ {last.args[1].str}
              [] OTHER -> before

RemoveEntity ==
    \E entity_id \in Entities(appended) \cup {"e"} :
        /\ cls = "CesiumMap"
        /\ HostStep("remove_entity", [entity_id |-> entity_id],
                    remove_entity(Self, entity_id))
        /\ UNCHANGED <<lastLayer, lastSource>>

LeafletAddMarker ==
    \E popup \in {"p", "q"} :
        /\ cls = "LeafletMap"
        /\ IdStep("add_marker", [popup |-> popup],
                  LeafletMap_add_marker(Self, <<51, -1>>, popup))

AddTileLayer ==
    \E layer_id \in {None, Str("a")} :
        /\ cls = "LeafletMap"
        /\ IdStep("add_tile_layer", [layer_id |-> layer_id],
                  add_tile_layer(Self, "u", layer_id))

\* remove_layer of a layer that is present, whoever named it
RemovePresent ==
    \E layer_id \in KeySet(_layers) :
        /\ HostStep("remove_layer", [layer_id |-> layer_id], remove_layer(Self, layer_id))
        /\ UNCHANGED <<lastLayer, lastSource>>

InitIds ==
    /\ IsWidget(CesiumMap__init__) \/ IsWidget(LeafletMap__init__)
    /\ InitHistory

NextIds ==
    \/ AddPoint
    \/ RemoveEntity
    \/ LeafletAddMarker
    \/ AddTileLayer
    \/ AddLayer
    \/ RemovePresent

SpecIds == InitIds /\ [][NextIds]_vars

\* ----------------------------------------------------------- draw data ----

EmptyFeatureCollection == [type |-> "FeatureCollection", features |-> <<>>]

\* The values of a draw-data trait: {} , no features, one feature.
DrawValues ==
    {EmptyDict, EmptyFeatureCollection, [type |-> "FeatureCollection", features |-> <<"f">>]}

\* bool(d) of a dict
Truthy(d) == DOMAIN d # {}

\* The trait as it is, with the fallback dropped.
DataOrDefault_raw(data) == data

\* self._draw_data if self._draw_data else {"type": "FeatureCollection", "features": []}
DataOrDefault(data) == IF Truthy(data) THEN data ELSE EmptyFeatureCollection

\* get_draw_data / get_terra_draw_data up to the return of the first branch
\* or to time.sleep(0.2): `data` is the trait the method reads.
PullCall(name, method_name, data) ==
    /\ pull.pc # "sleep"
    /\ nops < MaxOps
    /\ nops' = nops + 1
    /\ lastOp' = [name |-> name, args |-> <<>>]
    /\ IF Truthy(data)
       THEN /\ pull' = [pc |-> "returned", name |-> name, waits |-> 0,
                        seen |-> data, returned |-> data]
            /\ UNCHANGED widget
       ELSE /\ pull' = [pc |-> "sleep", name |-> name, waits |-> 0]
            /\ Becomes(call_js_method(Self, method_name, <<>>))
    /\ UNCHANGED <<lastLayer, lastSource, inbox, document, other, snapshot, compare, drain,
                   _draw_data, _terra_draw_data, inbound>>

GetDrawData ==
    /\ cls = "MapLibreMap"
    /\ PullCall("get_draw_data", "getDrawData", _draw_data)

GetTerraDrawData ==
    /\ cls = "MapLibreMap"
    /\ PullCall("get_terra_draw_data", "getTerraDrawData", _terra_draw_data)

\* time.sleep(0.2) is over: the method reads the trait again and returns.
Wake ==
    /\ pull.pc = "sleep"
    /\ LET data == IF pull.name = "get_draw_data" THEN _draw_data ELSE _terra_draw_data
       IN pull' = [pc |-> "returned", name |-> pull.name, waits |-> pull.waits + 1,
                   seen |-> data, returned |-> DataOrDefault(data)]
    /\ UNCHANGED <<widget, history, inbox, document, other, snapshot, compare, drain,
                   _draw_data, _terra_draw_data, inbound>>

\* The surface synchronizes the features of a draw control, at any time.
SyncDrawData ==
    \E data \in DrawValues \ {_draw_data} :
        /\ cls = "MapLibreMap"
        /\ _draw_data' = data
        /\ lastOp' = [name |-> "sync_draw_data"]
        /\ UNCHANGED <<widget, nops, lastLayer, lastSource, inbox, document, other,
                       snapshot, compare, drain, _terra_draw_data, pull, inbound>>

SyncTerraDrawData ==
    \E data \in DrawValues \ {_terra_draw_data} :
        /\ cls = "MapLibreMap"
        /\ _terra_draw_data' = data
        /\ lastOp' = [name |-> "sync_terra_draw_data"]
        /\ UNCHANGED <<widget, nops, lastLayer, lastSource, inbox, document, other,
                       snapshot, compare, drain, _draw_data, pull, inbound>>

\* MapLibreMap.clear_draw_data
ClearDrawData ==
    /\ cls = "MapLibreMap"
    /\ pull.pc # "sleep"
    /\ nops < MaxOps
    /\ nops' = nops + 1
    /\ lastOp' = [name |-> "clear_draw_data", args |-> <<>>]
    /\ _draw_data' = EmptyFeatureCollection
    /\ Becomes(call_js_method(Self, "clearDrawData", <<>>))
    /\ UNCHANGED <<lastLayer, lastSource, inbox, document, other, snapshot, compare, drain,
                   _terra_draw_data, pull, inbound>>

InitDraw ==
    /\ IsWidget(MapLibreMap__init__(<<>>))
    /\ InitHistory

NextDraw ==
    \/ GetDrawData
    \/ GetTerraDrawData
    \/ Wake
    \/ SyncDrawData
    \/ SyncTerraDrawData
    \/ ClearDrawData

\* time.sleep returns.
SpecDraw == InitDraw /\ [][NextDraw]_vars /\ WF_vars(Wake)

\* The classes of the package that callers construct and export.
InitBackends ==
    /\ \E class \in {"MapboxMap", "MapLibreMap", "LeafletMap", "CesiumMap"} :
         CASE class = "MapboxMap" -> IsWidget(MapWidget__init__(class))
           [] class = "LeafletMap" -> IsWidget(LeafletMap__init__)
           [] class = "CesiumMap" -> IsWidget(CesiumMap__init__)
           [] OTHER -> IsWidget(MapLibreMap__init__(<<>>))
    /\ InitHistory

NextBackends ==
    \/ AddLayer
    \/ RemoveLayer
    \/ AddSource
    \/ RemoveSource
    \/ SetCenter
    \/ SetZoom
    \/ ToHtml

SpecBackends == InitBackends /\ [][NextBackends]_vars

\* ------------------------------------------------------- layer helpers ----

\* f"{layer_id}_source"
SourceIdOf(layer_id) == layer_id \o "_source"

\* self.add_layer(layer_id, layer_config, before_id, ...) inside a helper:
\* the add_layer of maplibre.py takes before_id, opacity and visible, the
\* add_layer of MapWidget takes the id and the definition only.
HelperAddLayer(self, layer_id, layer_config, before_id, opacity, visible) ==
    IF self.cls = "MapLibreMap"
    THEN MapLibreMap_add_layer(self, layer_id, layer_config, before_id, opacity, visible)
    ELSE MapWidget_add_layer(self, layer_id, layer_config)

\* add_geojson_layer declaring the layer before its source.
add_geojson_layer_layer_first(self, layer_id, geojson_data, layer_type, before_id) ==
    LET source_id == SourceIdOf(layer_id)
        layer_config == [id |-> layer_id, type |-> layer_type, source |-> source_id]
        layered == HelperAddLayer(self, layer_id, layer_config, before_id, 100, TRUE)
    IN add_source(layered, source_id, [type |-> "geojson", data |-> geojson_data])

add_geojson_layer(self, layer_id, geojson_data, layer_type, before_id) ==
    LET source_id == SourceIdOf(layer_id)
        sourced == add_source(self, source_id, [type |-> "geojson", data |-> geojson_data])
        layer_config == [id |-> layer_id, type |-> layer_type, source |-> source_id]
    IN HelperAddLayer(sourced, layer_id, layer_config, before_id, 100, TRUE)

\* MapLibreMap.add_tile_layer of maplibre.py, add_raster_layer of anymap.py
add_raster_layer(self, layer_id, source_url, before_id) ==
    LET source_id == SourceIdOf(layer_id)
        sourced == add_source(self, source_id,
                              [type |-> "raster", tiles |-> <<source_url>>, tileSize |-> 256])
        layer_config == [id |-> layer_id, type |-> "raster", source |-> source_id]
    IN HelperAddLayer(sourced, layer_id, layer_config, before_id, 100, TRUE)

add_vector_layer(self, layer_id, source_url, source_layer, layer_type, before_id) ==
    LET source_id == SourceIdOf(layer_id)
        sourced == add_source(self, source_id, [type |-> "vector", url |-> source_url])
        layer_config == [id |-> layer_id, type |-> layer_type, source |-> source_id,
                         source_layer |-> source_layer]
    IN HelperAddLayer(sourced, layer_id, layer_config, before_id, 100, TRUE)

add_image_layer(self, layer_id, image_url, coordinates, before_id) ==
    LET source_id == SourceIdOf(layer_id)
        sourced == add_source(self, source_id,
                              [type |-> "image", url |-> image_url,
                               coordinates |-> coordinates])
        layer_config == [id |-> layer_id, type |-> "raster", source |-> source_id]
    IN HelperAddLayer(sourced, layer_id, layer_config, before_id, 100, TRUE)

add_cog_layer(self, layer_id, cog_url, opacity, visible, before_id) ==
    LET source_id == SourceIdOf(layer_id)
        cog_source_url == "cog://" \o cog_url
        sourced == add_source(self, source_id,
                              [type |-> "raster", url |-> cog_source_url, tileSize |-> 256])
        layer_config == [id |-> layer_id, type |-> "raster", source |-> source_id]
    IN MapLibreMap_add_layer(sourced, layer_id, layer_config, before_id, opacity, visible)

\* The before_id a caller gives to a helper: none, with MapWidget's helpers
\* always none.
BeforeIds == IF cls = "MapLibreMap" THEN {None, Str("a")} ELSE {None}

\* One call of a helper on the widget.
HelperStep(name, layer_id, before_id, self) ==
    /\ HostStep(name, [layer_id |-> layer_id, before_id |-> before_id], self)
    /\ lastLayer' = [lastLayer EXCEPT ![layer_id] = Get(self._layers, layer_id)]
    /\ UNCHANGED lastSource

AddGeojsonLayer ==
    \E layer_id \in LayerIds : \E before_id \in BeforeIds :
        /\ cls \in {"MapLibreMap", "MapboxMap"}
        /\ HelperStep("add_geojson_layer", layer_id, before_id,
                      add_geojson_layer(Self, layer_id, "d1", "fill", before_id))

AddRasterLayer ==
    \E layer_id \in LayerIds : \E before_id \in BeforeIds :
        /\ cls \in {"MapLibreMap", "MapboxMap"}
        /\ HelperStep(IF cls = "MapLibreMap" THEN "add_tile_layer" ELSE "add_raster_layer",
                      layer_id, before_id,
                      add_raster_layer(Self, layer_id, "u", before_id))

AddVectorLayer ==
    \E layer_id \in LayerIds : \E before_id \in BeforeIds :
        /\ cls \in {"MapLibreMap", "MapboxMap"}
        /\ HelperStep("add_vector_layer", layer_id, before_id,
                      add_vector_layer(Self, layer_id, "u", "roads", "line", before_id))

AddImageLayer ==
    \E layer_id \in LayerIds : \E before_id \in BeforeIds :
        /\ cls \in {"MapLibreMap", "MapboxMap"}
        /\ HelperStep("add_image_layer", layer_id, before_id,
                      add_image_layer(Self, layer_id, "u", <<0, 0>>, before_id))

AddCogLayer ==
    \E layer_id \in LayerIds : \E before_id \in BeforeIds : \E shown \in Shown :
        /\ cls = "MapLibreMap"
        /\ HelperStep("add_cog_layer", layer_id, before_id,
                      add_cog_layer(Self, layer_id, "u", shown[1], shown[2], before_id))

NextHelpers ==
    \/ AddGeojsonLayer
    \/ AddRasterLayer
    \/ AddVectorLayer
    \/ AddImageLayer
    \/ AddCogLayer
    \/ RemoveLayer

InitHelpers ==
    /\ IsWidget(MapWidget__init__("MapboxMap")) \/ IsWidget(MapLibreMap__init__(<<>>))
    /\ InitHistory

SpecHelpers == InitHelpers /\ [][NextHelpers]_vars

\* ------------------------------------------------------------ mutators ----

\* MapLibreMap.add_layer(layer_id, layer, before_id) with a before_id
AddLayerBefore ==
    \E layer_id \in LayerIds : \E layer \in LayerDefs(layer_id) :
    \E before_id \in LayerIds \ {layer_id} :
        /\ cls = "MapLibreMap"
        /\ HostStep("add_layer",
                    [layer_id |-> layer_id, layer |-> layer, before_id |-> before_id,
                     opacity |-> 100, visible |-> TRUE],
                    MapLibreMap_add_layer(Self, layer_id, layer, Str(before_id), 100, TRUE))
        /\ lastLayer' = [lastLayer EXCEPT ![layer_id] = layer]
        /\ UNCHANGED lastSource

NextMutators ==
    \/ AddLayer
    \/ AddLayerBefore
    \/ RemoveLayer
    \/ AddSource
    \/ RemoveSource

SpecMutators == InitHelpers /\ [][NextMutators]_vars

\* --------------------------------------------------------------- clear ----

\* for layer_id in ids: self.remove_layer(layer_id)
RECURSIVE RemoveLayers(_, _)
RemoveLayers(self, ids) ==
    IF ids = <<>> THEN self
    ELSE RemoveLayers(remove_layer(self, Head(ids)), Tail(ids))

\* for source_id in ids: self.remove_source(source_id)
RECURSIVE RemoveSources(_, _)
RemoveSources(self, ids) ==
    IF ids = <<>> THEN self
    ELSE RemoveSources(remove_source(self, Head(ids)), Tail(ids))

\* list(self._layers.keys()), then a remove_layer for each
clear_layers(self) == RemoveLayers(self, Keys(self._layers))

clear_sources(self) == RemoveSources(self, Keys(self._sources))

\* clear_all removing the sources before the layers.
clear_all_sources_first(self) == clear_layers(clear_sources(self))

clear_all(self) == clear_sources(clear_layers(self))

\* One call of a clear method; a remove of each id is what is left of every
\* last definition.
ClearStep(name, self) ==
    /\ HostStep(name, <<>>, self)
    /\ lastLayer' = [id \in DOMAIN lastLayer |->
                        IF Has(self._layers, id) THEN lastLayer[id] ELSE NoDef]
    /\ lastSource' = [id \in DOMAIN lastSource |->
                        IF Has(self._sources, id) THEN lastSource[id] ELSE NoDef]

ClearLayers ==
    /\ cls = "MapboxMap"
    /\ ClearStep("clear_layers", clear_layers(Self))

ClearSources ==
    /\ cls = "MapboxMap"
    /\ ClearStep("clear_sources", clear_sources(Self))

ClearAll ==
    /\ cls = "MapboxMap"
    /\ ClearStep("clear_all", clear_all(Self))

InitClear ==
    /\ IsWidget(MapWidget__init__("MapboxMap"))
    /\ InitHistory

NextClear ==
    \/ AddGeojsonLayer
    \/ AddLayer
    \/ AddSource
    \/ ClearLayers
    \/ ClearSources
    \/ ClearAll

SpecClear == InitClear /\ [][NextClear]_vars

\* ------------------------------------------------------------ viewport ----

\* The numbers a caller passes to a viewport setter: below, inside, at the
\* edge of, and above each documented range.
Numbers == {-1, 0, 45, 60, 61, 360, 400}

SetAnyZoom ==
    \E z \in Numbers :
        /\ HostStep("set_zoom", [zoom |-> z], set_zoom(Self, z))
        /\ UNCHANGED <<lastLayer, lastSource>>

SetAnyBearing ==
    \E b \in Numbers :
        /\ cls = "MapLibreMap"
        /\ HostStep("set_bearing", [bearing |-> b], set_bearing(Self, b))
        /\ UNCHANGED <<lastLayer, lastSource>>

SetAnyPitch ==
    \E p \in Numbers :
        /\ cls = "MapLibreMap"
        /\ HostStep("set_pitch", [pitch |-> p], set_pitch(Self, p))
        /\ UNCHANGED <<lastLayer, lastSource>>

NextViewport ==
    \/ SetCenter
    \/ SetAnyZoom
    \/ SetAnyBearing
    \/ SetAnyPitch

SpecViewport == InitMapLibre /\ [][NextViewport]_vars

\* -------------------------------------------------------------- tokens ----

Tokens == {"", "pk"}

MapboxMap__init__(token) ==
    [MapWidget__init__("MapboxMap") EXCEPT !.access_token = Str(token)]

set_access_token(self, token) == [self EXCEPT !.access_token = Str(token)]

SetAccessToken ==
    \E token \in Tokens :
        /\ cls = "MapboxMap"
        /\ HostStep("set_access_token", [token |-> token], set_access_token(Self, token))
        /\ UNCHANGED <<lastLayer, lastSource>>

\* The configurations of one side of a MapCompare: no token key, an empty
\* token, a token.
CompareConfigs ==
    {[style |-> "streets"],
     [style |-> "streets", access_token |-> ""],
     [style |-> "streets", access_token |-> "pk"]}

\* MapCompare.__init__ with left_map and right_map left out
MapCompare__init__(backend) ==
    [backend |-> backend,
     left_map_config |-> [style |-> "streets"],
     right_map_config |-> [style |-> "satellite"],
     _js_calls |-> <<>>, _js_method_counter |-> 0]

\* config.get("access_token", "")
TokenOf(config) ==
    IF "access_token" \in DOMAIN config THEN config.access_token ELSE ""

\* MapCompare.to_html with its template: the document, with the warning
\* block that the template puts in when neither side has a token.
MapCompare_to_html(self) ==
    LET widget_state == [left_map_config |-> self.left_map_config,
                         right_map_config |-> self.right_map_config,
                         backend |-> self.backend]
        left_token == TokenOf(widget_state.left_map_config)
        right_token == TokenOf(widget_state.right_map_config)
    IN [cls |-> "MapCompare", widgetState |-> widget_state,
        warning |-> /\ widget_state.backend = "mapbox"
                    /\ left_token = ""
                    /\ right_token = ""]

update_left_map(self, config) ==
    call_js_method([self EXCEPT !.left_map_config = config], "updateLeftMap", <<config>>)

update_right_map(self, config) ==
    call_js_method([self EXCEPT !.right_map_config = config], "updateRightMap", <<config>>)

\* One public method call on the MapCompare widget.
CompareStep(name, args, self) ==
    /\ nops < MaxOps
    /\ nops' = nops + 1
    /\ lastOp' = [name |-> name, args |-> args, on |-> "compare"]
    /\ compare' = [backend |-> self.backend,
                   left_map_config |-> self.left_map_config,
                   right_map_config |-> self.right_map_config,
                   _js_calls |-> self._js_calls,
                   _js_method_counter |-> self._js_method_counter]
    /\ UNCHANGED <<widget, lastLayer, lastSource, inbox, document, other, draw, snapshot, drain>>

UpdateLeftMap ==
    \E config \in CompareConfigs :
        /\ compare # None
        /\ CompareStep("update_left_map", [config |-> config],
                       update_left_map(("objs" :> <<>>) @@ ("appended" :> <<>>) @@ compare,
                                       config))

UpdateRightMap ==
    \E config \in CompareConfigs :
        /\ compare # None
        /\ CompareStep("update_right_map", [config |-> config],
                       update_right_map(("objs" :> <<>>) @@ ("appended" :> <<>>) @@ compare,
                                        config))

CompareToHtml ==
    /\ compare # None
    /\ nops < MaxOps
    /\ nops' = nops + 1
    /\ lastOp' = [name |-> "to_html", args |-> <<>>, on |-> "compare"]
    /\ document' = MapCompare_to_html(compare)
    /\ UNCHANGED <<widget, lastLayer, lastSource, inbox, outer>>

InitToken ==
    /\ \E token \in Tokens : IsWidget(MapboxMap__init__(token))
    /\ InitLog
    /\ other = None
    /\ \E backend \in {"mapbox", "maplibre"} : compare = MapCompare__init__(backend)

NextToken ==
    \/ AddLayer
    \/ AddSource
    \/ SetAccessToken
    \/ ToHtml
    \/ UpdateLeftMap
    \/ UpdateRightMap
    \/ CompareToHtml

SpecToken == InitToken /\ [][NextToken]_vars

\* ----------------------------------------------------------- snapshots ----

\* The dict object stored under a key: named by the record of the add_layer /
\* add_source call that stored it (each call is given a dict of its own).
RECURSIVE StoredBy(_, _, _)
StoredBy(calls, method_name, key) ==
    IF calls = <<>> THEN -1
    ELSE LET last == calls[Len(calls)]
             named == IF method_name = "addLayer" THEN last.args[2] ELSE last.args[1]
         IN IF last.method = method_name /\ named = Str(key)
            THEN last.id
            ELSE StoredBy(SubSeq(calls, 1, Len(calls) - 1), method_name, key)

\* dict(d): a new dict with the keys of d, each with the object d has for it.
ShallowCopy(d, calls, method_name) ==
    [i \in 1..Len(d) |->
        [k |-> d[i].k, v |-> d[i].v, obj |-> StoredBy(calls, method_name, d[i].k)]]

get_layers(self) == ShallowCopy(self._layers, self.appended, "addLayer")

get_sources(self) == ShallowCopy(self._sources, self.appended, "addSource")

\* A call that returns a value to the caller and changes nothing.
Returns(name, value) ==
    /\ nops < MaxOps
    /\ nops' = nops + 1
    /\ lastOp' = [name |-> name, args |-> <<>>]
    /\ snapshot' = value
    /\ UNCHANGED <<widget, lastLayer, lastSource, inbox, document, other, draw, compare, drain>>

GetLayers ==
    /\ cls \in {"MapLibreMap", "MapboxMap"}
    /\ Returns("get_layers", [of |-> "_layers", entries |-> get_layers(Self)])

GetSources ==
    /\ cls \in {"MapLibreMap", "MapboxMap"}
    /\ Returns("get_sources", [of |-> "_sources", entries |-> get_sources(Self)])

\* The same change seen in the queue: the record of the call that stored the
\* object has it as an argument.
SetInQueue(calls, method_name, entry, name, value) ==
    LET at == IF method_name = "addLayer" THEN 1 ELSE 2
    IN [j \in 1..Len(calls) |->
          IF calls[j].id = entry.obj /\ calls[j].method = method_name
          THEN [calls[j] EXCEPT !.args[at][name] = value]
          ELSE calls[j]]

\* d[key][name] = value on a dict d of the widget, done through an object
\* that d has under key: the dict changes where it stands, nothing is
\* assigned to a trait and nothing is enqueued.
SetInPlace(d, calls, method_name, entry, name, value) ==
    IF Has(d, entry.k) /\ StoredBy(calls, method_name, entry.k) = entry.obj
    THEN DictSet(d, entry.k, [Get(d, entry.k) EXCEPT ![name] = value])
    ELSE d

\* The caller changes a definition inside the snapshot: snapshot[key]["type"] = "changed".
MutateNested ==
    /\ snapshot # None
    /\ \E i \in 1..Len(snapshot.entries) :
        LET entry == snapshot.entries[i]
        IN /\ entry.v.type # "changed"
           /\ snapshot' = [snapshot EXCEPT !.entries[i].v.type = "changed"]
           /\ lastOp' = [name |-> "mutate_nested", args |-> [key |-> entry.k]]
           /\ IF snapshot.of = "_layers"
              THEN /\ _layers' = SetInPlace(_layers, appended, "addLayer", entry,
                                            "type", "changed")
                   /\ _js_calls' = SetInQueue(_js_calls, "addLayer", entry,
                                              "type", "changed")
                   /\ UNCHANGED _sources
              ELSE /\ _sources' = SetInPlace(_sources, appended, "addSource", entry,
                                             "type", "changed")
                   /\ _js_calls' = SetInQueue(_js_calls, "addSource", entry,
                                              "type", "changed")
                   /\ UNCHANGED _layers
    /\ UNCHANGED <<cls, center, zoom, bearing, pitch, style, access_token, _controls,
                   _js_method_counter, layer_dict, _layer_dict, surface_layer_dict, objs,
                   appended>>
    /\ UNCHANGED <<nops, lastLayer, lastSource, inbox, document, other, draw, compare, drain>>

\* The caller removes a key from the snapshot: del snapshot[key].
MutateTop ==
    /\ snapshot # None
    /\ \E i \in 1..Len(snapshot.entries) :
        /\ snapshot' = [snapshot EXCEPT
                          !.entries = SubSeq(@, 1, i - 1) \o SubSeq(@, i + 1, Len(@))]
        /\ lastOp' = [name |-> "mutate_top", args |-> [key |-> snapshot.entries[i].k]]
    /\ UNCHANGED <<widget, nops, lastLayer, lastSource, inbox, document, other, draw, compare, drain>>

InitSnapshot ==
    /\ IsWidget(MapWidget__init__("MapboxMap"))
    /\ InitHistory

NextSnapshot ==
    \/ AddLayer
    \/ RemoveLayer
    \/ AddSource
    \/ GetLayers
    \/ GetSources
    \/ MutateNested
    \/ MutateTop

SpecSnapshot == InitSnapshot /\ [][NextSnapshot]_vars

\* ------------------------------------------- controls by composite key ----

\* A dict the caller builds before the widget and passes as `options`.
CallerOptions == ("showCompass" :> TRUE)
CallerRef == [ref |-> Len(<<CallerOptions>>)]

\* MapLibreMap.add_draw_control(position) with the default tools.
add_draw_control(self, position) ==
    LET draw_options == [displayControlsDefault |-> FALSE,
                         controls |-> [point |-> TRUE, line_string |-> TRUE,
                                       polygon |-> TRUE, trash |-> TRUE],
                         defaultMode |-> "simple_select",
                         keybindings |-> TRUE,
                         touchEnabled |-> TRUE,
                         position |-> position]
        heap == Append(self.objs, draw_options)
        ref == [ref |-> Len(heap)]
        draw_key == ControlKey("draw", position)
        stored == [self EXCEPT
                     !.objs = heap,
                     !._controls = DictSet(@, draw_key,
                                           [type |-> "draw",
                                            position |-> position,
                                            options |-> ref])]
    IN call_js_method(stored, "addDrawControl", <<ref>>)

\* add_control with the options left out, or with the caller's dict.
AddControlOptions ==
    \E control_type \in ControlTypes \cup {"draw"} : \E position \in Positions :
    \E options \in {None, CallerRef} :
        /\ cls = "MapLibreMap"
        /\ objs[CallerRef.ref] # EmptyDict
        /\ HostStep("add_control",
                    [control_type |-> control_type, position |-> position,
                     options |-> options],
                    MapLibreMap_add_control(Self, control_type, position, options))
        /\ UNCHANGED <<lastLayer, lastSource>>

AddDrawControl ==
    \E position \in Positions :
        /\ cls = "MapLibreMap"
        /\ HostStep("add_draw_control", [position |-> position],
                    add_draw_control(Self, position))
        /\ UNCHANGED <<lastLayer, lastSource>>

\* opts = {...}; m = MapLibreMap(controls={})
InitCompositeKey ==
    /\ IsWidget([MapLibreMap__init__(<<>>) EXCEPT !.objs = <<CallerOptions>>])
    /\ InitHistory

NextCompositeKey ==
    \/ AddControlOptions
    \/ AddDrawControl
    \/ AddLayerControl
    \/ RemoveControl
    \/ AddLayer

SpecCompositeKey == InitCompositeKey /\ [][NextCompositeKey]_vars

\* ------------------------------------- handlers that register handlers ----

\* The handler invocations one observer call may make in the model.
MaxCalls == 4

\* The callbacks of this section: "f" returns; "more" calls
\* on_map_event(event["type"], f) when it is invoked; "again" registers
\* itself.  Registers is the callback an invocation registers, None for none.
DrainCallbacks == {"f", "more", "again"}
Registers(callback) ==
    IF callback = "more" THEN Str("f")
    ELSE IF callback = "again" THEN Str("again")
    ELSE None

\* The host registers a callback while no observer call runs.
RegisterHandler ==
    \E event_type \in EventTypes : \E callback \in DrainCallbacks :
        /\ drain.pc = "idle"
        /\ Len(_event_handlers["click"]) + Len(_event_handlers["moveend"]) < MaxHandlers
        /\ _event_handlers' = on_map_event(_event_handlers, event_type, callback)
        /\ lastOp' = [name |-> "on_map_event",
                      args |-> [event_type |-> event_type, callback |-> callback]]
        /\ UNCHANGED <<widget, nops, lastLayer, lastSource, document, outer>>
        /\ UNCHANGED <<_js_events, dispatched, delivered, raised, published>>

\* The surface assigns a batch to _js_events: the observer is entered with
\* events = change["new"], at its first event and that event's first handler.
\* began keeps the handlers as they are at this moment.
BeginDrain ==
    \E batch \in {<<t>> : t \in EventTypes} \cup {<<t, t>> : t \in EventTypes} :
        /\ drain.pc = "idle"
        /\ published + Len(batch) <= MaxEvents
        /\ LET value == [k \in 1..Len(batch) |-> NewEvent(batch[k], published + k)]
           IN /\ value # _js_events
              /\ _js_events' = value
        /\ published' = published + Len(batch)
        /\ dispatched' = <<>>
        /\ drain' = [pc |-> "running", i |-> 1, j |-> 1, began |-> _event_handlers]
        /\ lastOp' = [name |-> "publish_batch"]
        /\ UNCHANGED <<widget, nops, lastLayer, lastSource, document, _event_handlers,
                       delivered, raised, other, draw, snapshot, compare>>

\* for handler in self._event_handlers[event_type]: handler(event)
\* One turn of the inner loop: the list iterator yields the element at its
\* index of the list as it is now, and the handler runs.
CallHandler ==
    /\ drain.pc = "running"
    /\ Len(dispatched) < MaxCalls
    /\ LET event == _js_events[drain.i]
           handlers == _event_handlers[event.type]
       IN /\ drain.j <= Len(handlers)
          /\ LET handler == handlers[drain.j]
             IN /\ dispatched' = Append(dispatched, [handler |-> handler, event |-> event])
                /\ delivered' = Append(delivered, [handler |-> handler, event |-> event])
                /\ _event_handlers' =
                      IF Registers(handler) = None THEN _event_handlers
                      ELSE on_map_event(_event_handlers, event.type, Registers(handler).str)
    /\ drain' = [drain EXCEPT !.j = @ + 1]
    /\ UNCHANGED <<widget, history, document, _js_events, raised, published,
                   other, draw, snapshot, compare>>

\* The inner loop is exhausted: the outer loop takes the next event, or the
\* observer returns.
NextEvent ==
    /\ drain.pc = "running"
    /\ drain.j > Len(_event_handlers[_js_events[drain.i].type])
    /\ drain' = IF drain.i < Len(_js_events)
                THEN [drain EXCEPT !.i = @ + 1, !.j = 1]
                ELSE [drain EXCEPT !.pc = "idle"]
    /\ UNCHANGED <<widget, history, document, inbox, other, draw, snapshot, compare>>

NextDrain ==
    \/ RegisterHandler
    \/ BeginDrain
    \/ CallHandler
    \/ NextEvent

SpecDrain == InitMapWidget /\ [][NextDrain]_vars

\* ------------------------------------------- the pull on one host thread ----

\* The surface has taken the getDrawData record of the waiting call and
\* answers within the wait: it sets its _draw_data to the drawn features, and
\* the change travels to the host as a message.
SurfaceAnswers ==
    \E features \in {d \in DrawValues : Truthy(d) /\ d.features # <<>>} :
        /\ cls = "MapLibreMap"
        /\ pull.pc = "sleep"
        /\ pull.name = "get_draw_data"
        /\ _js_calls[Len(_js_calls)].method = "getDrawData"
        /\ inbound = <<>>
        /\ inbound' = <<[name |-> "_draw_data", value |-> features]>>
        /\ UNCHANGED <<widget, history, inbox, document, other, snapshot, compare, drain,
                       _draw_data, _terra_draw_data, pull>>

\* The host thread takes a message of the surface and assigns the trait.  It
\* is the thread that runs the methods: inside time.sleep it takes none.
ProcessInbound ==
    /\ cls = "MapLibreMap"
    /\ pull.pc # "sleep"
    /\ inbound # <<>>
    /\ _draw_data' = Head(inbound).value
    /\ inbound' = Tail(inbound)
    /\ lastOp' = [name |-> "sync_draw_data"]
    /\ UNCHANGED <<widget, nops, lastLayer, lastSource, inbox, document, other,
                   snapshot, compare, drain, _terra_draw_data, pull>>

\* The surface changes its features while the host thread is free.
DrawOnSurface ==
    /\ pull.pc # "sleep"
    /\ SyncDrawData

NextPull ==
    \/ GetDrawData
    \/ GetTerraDrawData
    \/ SurfaceAnswers
    \/ Wake
    \/ ProcessInbound
    \/ DrawOnSurface
    \/ ClearDrawData

SpecPull == InitDraw /\ [][NextPull]_vars /\ WF_vars(Wake)

\* ------------------------------------------------------------ set_style ----

\* The styles a caller passes: a URL or a name, or a style object.
StyleObject == [version |-> 8, sources |-> EmptyDict]
Styles == {Str("dark-matter"), Str("https://new-style.com/style.json"), StyleObject}

\* set_style that enqueues a record for a string as well.
set_style_always_enqueued(self, new_style) ==
    IF "str" \in DOMAIN new_style
    THEN call_js_method([self EXCEPT !.style = new_style.str], "setStyle", <<new_style>>)
    ELSE call_js_method(self, "setStyle", <<new_style>>)

\* MapLibreMap.set_style(style).  The persisted style is the trait `style`
\* of maplibre.py and the trait `map_style` of anymap.py.
set_style(self, new_style) ==
    IF "str" \in DOMAIN new_style
    THEN [self EXCEPT !.style = new_style.str]
    ELSE call_js_method(self, "setStyle", <<new_style>>)

SetStyle ==
    \E new_style \in Styles :
        /\ cls \in {"MapLibreMap", "MapboxMap"}
        /\ HostStep("set_style", [style |-> new_style], set_style(Self, new_style))
        /\ UNCHANGED <<lastLayer, lastSource>>

NextStyle ==
    \/ SetStyle
    \/ AddLayer
    \/ AddSource
    \/ SetZoom
    \/ ToHtml

SpecStyle == InitHelpers /\ [][NextStyle]_vars

\* ------------------------------------------------- clearing the entities ----

\* CesiumMap.clear_entities
clear_entities(self) == clear_layers(self)

ClearEntities ==
    /\ cls = "CesiumMap"
    /\ ClearStep("clear_entities", clear_entities(Self))

InitEntities ==
    /\ IsWidget(CesiumMap__init__)
    /\ InitHistory

NextEntities ==
    \/ AddPoint
    \/ RemoveEntity
    \/ AddLayer
    \/ ClearEntities

SpecEntities == InitEntities /\ [][NextEntities]_vars

\* ------------------------------------------------ add_layer that raises ----

\* A layer definition without a 'type' field.
UntypedDefs(id) == {[id |-> id, source |-> "s"]}

\* add_layer with such a definition: the call raises KeyError.
AddLayerUntyped ==
    \E layer_id \in LayerIds : \E layer \in UntypedDefs(layer_id) :
    \E shown \in Shown :
        /\ cls = "MapLibreMap"
        /\ HostStep("add_layer",
                    [layer_id |-> layer_id, layer |-> layer,
                     opacity |-> shown[1], visible |-> shown[2]],
                    add_layer(Self, layer_id, layer, shown[1], shown[2]))
        /\ UNCHANGED <<lastLayer, lastSource>>

NextRaising ==
    \/ AddLayer
    \/ AddLayerUntyped
    \/ RemoveLayer
    \/ AddLayerControl
    \/ SetVisibility
    \/ SetZoom

SpecRaising == InitMapLibre /\ [][NextRaising]_vars

\* ============================================================ claims ====

\* C1: after any sequence of add_layer / remove_layer calls, the keys of
\* _layers are exactly the ids whose last call was an add_layer, each mapped
\* to the definition of its most recent add_layer; the same for add_source /
\* remove_source and _sources.
C1_LastWriteWins ==
    /\ KeySet(_layers) = {id \in LayerIds : lastLayer[id] # NoDef}
    /\ \A id \in KeySet(_layers) : Get(_layers, id) = lastLayer[id]
    /\ KeySet(_sources) = {id \in SourceIds : lastSource[id] # NoDef}
    /\ \A id \in KeySet(_sources) : Get(_sources, id) = lastSource[id]

\* A layer was added, re-declared with another definition, and another layer
\* that had been added is gone again.
C1_Witness ==
    /\ nops >= 3
    /\ \E id \in LayerIds :
        /\ lastLayer[id] # NoDef
        /\ \E i \in 1..Len(appended) :
            /\ appended[i].method = "addLayer"
            /\ appended[i].args[2] = Str(id)
            /\ appended[i].args[1] # lastLayer[id]
    /\ \E id \in LayerIds \cup SourceIds :
        /\ \E i \in 1..Len(appended) :
            /\ appended[i].method \in {"removeLayer", "removeSource"}
            /\ appended[i].args[1] = Str(id)

\* C2: the n-th record a widget appends gets id n-1, so every record gets an
\* id greater than all earlier ones and no id is assigned twice, also after
\* the surface has truncated or replaced the synchronized list.
C2_IdsNeverReused ==
    /\ \A i \in 1..Len(appended) : appended[i].id = i - 1
    /\ \A i \in 1..Len(_js_calls) : \A j \in 1..Len(_js_calls) :
         i < j => _js_calls[i].id < _js_calls[j].id

\* A record was appended after the surface had cut the list down.
C2_Witness ==
    /\ lastOp.name = "call_js_method"
    /\ Len(_js_calls) < Len(appended)
    /\ Len(_js_calls) >= 1
    /\ _js_calls[Len(_js_calls)].id = Len(appended) - 1

TransientOps == {"fly_to", "fit_bounds", "add_marker", "take_screenshot", "call_js_method"}

\* The method name and the arguments a transient operation is to enqueue.
TransientRecord(op) ==
    CASE op.name = "fly_to" ->
           [method |-> "flyTo",
            args |-> <<IF op.args.zoom = None
                       THEN [center |-> <<op.args.lat, op.args.lng>>]
                       ELSE [center |-> <<op.args.lat, op.args.lng>>,
                             zoom |-> op.args.zoom.num]>>]
      [] op.name = "fit_bounds" ->
           [method |-> "fitBounds",
            args |-> <<[bounds |-> op.args.bounds], [padding |-> op.args.padding]>>]
      [] op.name = "add_marker" ->
           [method |-> "addMarker",
            args |-> <<[coordinates |-> <<op.args.lng, op.args.lat>>,
                        popup |-> op.args.popup]>>]
      [] op.name = "take_screenshot" -> [method |-> "takeScreenshot", args |-> <<>>]
      [] op.name = "call_js_method" ->
           [method |-> op.args.method_name, args |-> op.args.args]

\* C4: a transient operation appends exactly one record, with its method
\* name and its arguments, and leaves the State Store unchanged; the viewport
\* changes only in a step of an explicit setter.
C4_TransientLeavesStore ==
    [][/\ lastOp'.name \in TransientOps =>
            /\ center' = center /\ zoom' = zoom /\ bearing' = bearing /\ pitch' = pitch
            /\ _layers' = _layers /\ _sources' = _sources
            /\ Len(_js_calls') = Len(_js_calls) + 1
            /\ SubSeq(_js_calls', 1, Len(_js_calls)) = _js_calls
            /\ LET rec == _js_calls'[Len(_js_calls')]
                   want == TransientRecord(lastOp')
               IN rec.method = want.method /\ rec.args = want.args
       /\ <<center, zoom, bearing, pitch>>' # <<center, zoom, bearing, pitch>> =>
            lastOp'.name \in {"set_center", "set_zoom", "set_bearing", "set_pitch"}
      ]_vars

\* A flyTo to zoom 14 is enqueued and the stored center and zoom are still
\* the ones of construction.
C4_Witness ==
    /\ lastOp.name = "fly_to"
    /\ lastOp.args.zoom = Num(14)
    /\ zoom # 14
    /\ center # <<lastOp.args.lat, lastOp.args.lng>>
    /\ _js_calls[Len(_js_calls)].method = "flyTo"

\* C3: the call queue is append-only: every call_js_method appends one
\* record at the end, and no host operation removes, reorders or rewrites a
\* record already enqueued; a record of add_control or add_layer_control
\* keeps the arguments it was appended with.
C3_AppendOnly == DerefAll(objs, _js_calls) = appended


\* The invocations a drain of the events owes: every event in order, each
\* to the handlers of its type in registration order.
RECURSIVE Owed(_, _)
Owed(handlers, events) ==
    IF events = <<>> THEN <<>>
    ELSE LET event == Head(events)
         IN [j \in 1..Len(handlers[event.type]) |->
                [handler |-> handlers[event.type][j], event |-> event]]
            \o Owed(handlers, Tail(events))

AfterDrain == lastOp.name \in {"publish_append", "publish_batch"}

\* C5: when the inbox changes to a batch, every event of the batch has been
\* dispatched, in order, to every handler registered for its type, in
\* registration order, and none is skipped.
C5_DispatchEveryEvent ==
    AfterDrain => dispatched = Owed(_event_handlers, _js_events)

\* C6: with two handlers registered for one type and one event of that type
\* published, both handlers have been invoked exactly once, in registration
\* order, with that event.
C6_BothHandlersOnce ==
    \A event_type \in EventTypes :
        (/\ AfterDrain
         /\ Len(_event_handlers[event_type]) = 2
         /\ Len(_js_events) = 1
         /\ _js_events[1].type = event_type)
        => dispatched = << [handler |-> _event_handlers[event_type][1], event |-> _js_events[1]],
                           [handler |-> _event_handlers[event_type][2], event |-> _js_events[1]] >>

\* C7: when a handler raises, the handlers after it (for the same event and
\* for the later events) still run, and the exception does not leave the drain.
C7_RaisingHandlerIsolated ==
    \A k \in 1..Len(dispatched) :
        Raises(dispatched[k].handler)
        => /\ ~raised
           /\ Len(dispatched) = Len(Owed(_event_handlers, _js_events))

Count(seq, x) == Cardinality({k \in 1..Len(seq) : seq[k] = x})

\* C8: a drained batch is consumed: when the surface appends a further event
\* to the inbox, no event reaches a registration of a handler a second time.
C8_NoRedispatch ==
    \A k \in 1..Len(delivered) :
        Count(delivered, delivered[k])
            <= Count(_event_handlers[delivered[k].event.type], delivered[k].handler)

AfterExport == lastOp.name = "to_html"

\* C9: the layers, sources and controls a fresh backend shows after the
\* exported document has replayed the snapshot are those it shows after the
\* records of the call queue have been applied to it one by one, in order.
C9_ReplayMatchesQueue ==
    AfterExport =>
        ApplyAll(FreshBackend, OpenDocument(document), 1)
            = ApplyAll(FreshBackend, DerefAll(objs, _js_calls), 1)

\* C10: in the replay of the exported document every source of the snapshot
\* is added before any layer is, whatever the order of their declaration.
C10_SourcesBeforeLayers ==
    AfterExport =>
        LET calls == OpenDocument(document)
        IN /\ \A i \in 1..Len(calls) : \A j \in 1..Len(calls) :
                (calls[i].method = "addLayer" /\ calls[j].method = "addSource") => j < i
           /\ \A k \in 1..Len(_sources) :
                \E j \in 1..Len(calls) :
                    calls[j].method = "addSource" /\ calls[j].args[1] = Str(_sources[k].k)

\* A layer is declared, then the source it names, and the document exported
\* afterwards adds both.
C10_Witness ==
    /\ AfterExport
    /\ \E i \in 1..Len(_js_calls) : \E j \in 1..Len(_js_calls) :
          /\ i < j
          /\ _js_calls[i].method = "addLayer"
          /\ _js_calls[j].method = "addSource"
          /\ _js_calls[j].args[1] = Str(_js_calls[i].args[1].source)
    /\ LET calls == OpenDocument(document)
       IN \E i \in 1..Len(calls) : \E j \in 1..Len(calls) :
            /\ calls[i].method = "addLayer"
            /\ calls[j].method = "addSource"
            /\ calls[j].args[1] = Str(calls[i].args[1].source)

\* The place of the ready signal among the calls of a document, 0 when the
\* document never gets there.
ReadyAt(calls) ==
    IF \E r \in 1..Len(calls) : calls[r] = Ready
    THEN CHOOSE r \in 1..Len(calls) : calls[r] = Ready
    ELSE 0

AddedLayers(calls) ==
    LET adds == SelectSeq(calls, LAMBDA call : call.method = "addLayer")
    IN [i \in 1..Len(adds) |-> adds[i].args[1].id]

\* C12: the exported document adds the layers of the snapshot in the stored
\* order of _layers, the order in which their ids were first inserted.
C12_LayersInStoredOrder ==
    (AfterExport /\ IsDocument(document))
    => AddedLayers(OpenDocument(document)) = Keys(_layers)

\* C13: the exported document reconstructs the controls only after the ready
\* signal and after every source and every layer of the snapshot is added.
C13_ControlsLast ==
    AfterExport =>
        LET calls == OpenDocument(document)
        IN \A i \in 1..Len(calls) :
             calls[i].method = "addControl"
             => /\ ReadyAt(calls) > 0 /\ ReadyAt(calls) < i
                /\ \A j \in 1..Len(calls) :
                     calls[j].method \in {"addSource", "addLayer"} => j < i

\* The places of the calls of a document that apply an entry of the snapshot.
SnapshotCalls(doc) ==
    LET calls == OpenDocument(doc)
    IN {i \in 1..Len(calls) :
          \/ calls[i].method \in {"addSource", "addLayer"}
          \/ (calls[i].method = "addControl" /\ doc.cls = "MapLibreMap")}

\* C14: a class that exports yields a document that applies every source and
\* every layer of the snapshot, and when one source, layer or control fails
\* in the replay, every other one is still applied.
C14_FailureIsolated ==
    AfterExport =>
        /\ IsDocument(document)
        /\ LET calls == OpenDocument(document)
           IN /\ \A k \in 1..Len(_sources) : \E i \in 1..Len(calls) :
                    calls[i].method = "addSource" /\ calls[i].args[1] = Str(_sources[k].k)
              /\ \A k \in 1..Len(_layers) : \E i \in 1..Len(calls) :
                    calls[i].method = "addLayer" /\ calls[i].args[1] = _layers[k].v
              /\ \A failing \in SnapshotCalls(document) :
                    SnapshotCalls(document) \subseteq Executed(document, failing)

\* The options of the layer controls stored in _controls.
LayerControlOptions ==
    {objs[_controls[i].v.options.ref] :
        i \in {j \in 1..Len(_controls) : _controls[j].v.type = "layer_control"}}

Lists(options, layer_id) ==
    \/ options.layers = None
    \/ \E i \in 1..Len(options.layers.list) : options.layers.list[i] = layer_id

Target(layer_id) == IF layer_id = "Background" THEN StyleLayers[1].id ELSE layer_id

\* The records of the queue that set the given kind of property of a layer.
Setting(method, layer_id) ==
    SelectSeq(appended,
              LAMBDA call : /\ call.method = method
                            /\ call.args[1] = Str(Target(layer_id))
                            /\ (method = "setLayoutProperty" => call.args[2] = Str("visibility")))

\* The visible and the opacity in effect for a layer: the last values the
\* queue has set for it, the defaults of a layer when it has set none.
VisibleInEffect(layer_id) ==
    LET set == Setting("setLayoutProperty", layer_id)
    IN set = <<>> \/ set[Len(set)].args[3] = Str("visible")

OpacityInEffect(layer_id) ==
    LET set == Setting("setPaintProperty", layer_id)
    IN IF set = <<>> THEN 100 ELSE set[Len(set)].args[3].num

AfterLayerOp == lastOp.name \in {"add_layer", "remove_layer", "set_opacity", "set_visibility"}

\* C16: a layer control is never stale: after a layer operation has
\* returned, for every layer control and every id its layerStates lists,
\* 'Background' included, the visible and the opacity listed are the ones in
\* effect for that id.
C16_ControlNeverStale ==
    AfterLayerOp =>
        \A options \in LayerControlOptions :
            \A i \in 1..Len(options.layerStates) :
                LET layer_id == options.layerStates[i].k
                    state == options.layerStates[i].v
                IN /\ state.visible = VisibleInEffect(layer_id)
                   /\ state.opacity = OpacityInEffect(layer_id)

Persisted(self) ==
    [_layers |-> self._layers, _sources |-> self._sources,
     _controls |-> json_controls(self.objs, self._controls)]

\* C19: remove_layer, remove_source and remove_control with an id or a key
\* that is not present leave _layers, _sources and _controls as they are, so
\* that removing twice leaves what removing once leaves.
C19_RemoveAbsentIsNoOp ==
    [][ /\ (lastOp'.name = "remove_layer" /\ ~Has(_layers, lastOp'.args.layer_id))
             => Persisted(Self)' = Persisted(Self)
        /\ (lastOp'.name = "remove_source" /\ ~Has(_sources, lastOp'.args.source_id))
             => Persisted(Self)' = Persisted(Self)
        /\ (/\ lastOp'.name = "remove_control"
            /\ ~Has(_controls, ControlKey(lastOp'.args.control_type, lastOp'.args.position)))
             => Persisted(Self)' = Persisted(Self)
      ]_vars

\* A control has just been removed a second time, or at a position where
\* there is none, while another control is stored.
C19_Witness ==
    /\ lastOp.name = "remove_control"
    /\ _controls # <<>>
    /\ ~Has(_controls, ControlKey(lastOp.args.control_type, lastOp.args.position))
    /\ \E i \in 1..Len(_controls) : _controls[i].v.type = lastOp.args.control_type
    /\ appended[Len(appended)].method = "removeControl"

\* C20: removal does not cascade: remove_source leaves every entry of
\* _layers as it is, also the layers that name the source, and remove_layer
\* leaves every entry of _sources as it is.
C20_NoCascade ==
    [][ /\ lastOp'.name = "remove_source" => _layers' = _layers
        /\ lastOp'.name = "remove_layer" => _sources' = _sources
      ]_vars

\* A source has just been removed while a layer that names it stays declared.
C20_Witness ==
    /\ lastOp.name = "remove_source"
    /\ ~Has(_sources, lastOp.args.source_id)
    /\ \E i \in 1..Len(_layers) : _layers[i].v.source = lastOp.args.source_id
    /\ \E i \in 1..Len(appended) :
          /\ appended[i].method = "addSource"
          /\ appended[i].args[1] = Str(lastOp.args.source_id)

\* What the claim of independence names of an instance.
Named(self, handlers) ==
    [_js_calls |-> self._js_calls, _js_method_counter |-> self._js_method_counter,
     _event_handlers |-> handlers, _layers |-> self._layers, _sources |-> self._sources,
     center |-> self.center, zoom |-> self.zoom, bearing |-> self.bearing,
     pitch |-> self.pitch]

Numbered(calls) == \A i \in 1..Len(calls) : calls[i].id = i - 1

InUse == KeySet(_layers) \cup Entities(appended)

\* The call returned an id that the caller did not give.
MadeUp(op) ==
    /\ "returned" \in DOMAIN op
    /\ \A a \in DOMAIN op.args \cap {"layer_id", "entity_id"} : op.args[a] = None

\* C22: an id that a method makes up because the caller gave none is not the
\* id of a layer or entity that the widget already has.
C22_AutoIdsCollisionFree ==
    [][ (nops' = nops + 1 /\ MadeUp(lastOp')) => lastOp'.returned \notin InUse ]_vars

\* C23: get_draw_data and get_terra_draw_data return after at most one wait:
\* a call that sleeps does return, no call has waited twice, and a call that
\* finds no data when it wakes returns the empty FeatureCollection.
C23_PullReturns ==
    /\ [](pull.pc = "returned" =>
            /\ pull.waits <= 1
            /\ pull.returned = IF Truthy(pull.seen) THEN pull.seen
                               ELSE EmptyFeatureCollection)
    /\ (pull.pc = "sleep" ~> pull.pc = "returned")

\* A call slept, found the trait still empty and returned.
C23_Witness ==
    /\ pull.pc = "returned"
    /\ pull.waits = 1
    /\ ~Truthy(pull.seen)
    /\ pull.returned = EmptyFeatureCollection
    /\ _js_calls # <<>>

\* C24: a snapshot and the widget are isolated from each other: an operation
\* on the widget leaves a snapshot taken before as it is, and a change made to
\* the snapshot, at the top or inside a definition, leaves _layers and _sources
\* as they are.
C24_SnapshotIsolated ==
    [][ /\ lastOp'.name \in {"mutate_nested", "mutate_top"}
            => (_layers' = _layers /\ _sources' = _sources)
        /\ lastOp'.name \in {"add_layer", "remove_layer", "add_source"}
            => snapshot' = snapshot
      ]_vars

\* C25: to_html returns, for a widget of every class, a document that embeds
\* the center, zoom, style, _layers and _sources the widget has at the call.
C25_ExportEmbedsState ==
    AfterExport =>
        /\ IsDocument(document)
        /\ document.mapState.center = center
        /\ document.mapState.zoom = zoom
        /\ document.mapState.style = style
        /\ document.mapState._layers = _layers
        /\ document.mapState._sources = _sources

\* C26: the export of a token-gated widget succeeds with or without a token:
\* the document of a MapboxMap embeds the snapshot and shows the warning
\* exactly when the token is empty; the document of a MapCompare embeds both
\* configurations and shows the warning exactly when the backend is mapbox and
\* neither side has a token.
C26_TokenWarning ==
    /\ (lastOp.name = "to_html" /\ "on" \notin DOMAIN lastOp) =>
          /\ IsDocument(document)
          /\ document.mapState._layers = _layers
          /\ document.mapState._sources = _sources
          /\ document.mapState.access_token = access_token.str
          /\ document.warning <=> (access_token.str = "")
    /\ (lastOp.name = "to_html" /\ "on" \in DOMAIN lastOp) =>
          /\ document.widgetState.left_map_config = compare.left_map_config
          /\ document.widgetState.right_map_config = compare.right_map_config
          /\ document.warning <=>
                /\ compare.backend = "mapbox"
                /\ \A config \in {compare.left_map_config, compare.right_map_config} :
                      "access_token" \in DOMAIN config => config.access_token = ""

\* A MapboxMap with a layer and no token has been exported, with the warning.
C26_Witness ==
    /\ lastOp.name = "to_html"
    /\ "on" \notin DOMAIN lastOp
    /\ access_token = Str("")
    /\ _layers # <<>>
    /\ IsDocument(document)
    /\ document.warning

\* C27: whatever numbers the viewport setters are called with, the stored
\* viewport of a MapLibreMap has zoom >= 0, 0 <= bearing < 360 and
\* 0 <= pitch <= 60.
C27_ViewportInRange ==
    /\ zoom >= 0
    /\ 0 <= bearing /\ bearing < 360
    /\ 0 <= pitch /\ pitch <= 60

HelperNames ==
    {"add_geojson_layer", "add_raster_layer", "add_tile_layer", "add_vector_layer",
     "add_image_layer", "add_cog_layer"}

\* C28: a layer helper creates the source '<layer_id>_source' and then the
\* layer: the first record of the call is the addSource of that source, the
\* next one the addLayer of the layer, and at the return the layer stored
\* under layer_id names that source, which is in _sources.
C28_HelperSourceThenLayer ==
    [][ (nops' = nops + 1 /\ lastOp'.name \in HelperNames) =>
          LET layer_id == lastOp'.args.layer_id
              source_id == SourceIdOf(layer_id)
              n == Len(appended)
          IN /\ Len(appended') >= n + 2
             /\ appended'[n + 1].method = "addSource"
             /\ appended'[n + 1].args[1] = Str(source_id)
             /\ appended'[n + 2].method = "addLayer"
             /\ appended'[n + 2].args[1].id = layer_id
             /\ \A j \in (n + 3)..Len(appended') :
                   appended'[j].method \notin {"addSource", "addLayer"}
             /\ Has(_layers', layer_id)
             /\ Get(_layers', layer_id).source = source_id
             /\ Has(_sources', source_id)
      ]_vars

\* add_cog_layer has returned on a widget that already had a layer, with a
\* before_id given.
C28_Witness ==
    /\ lastOp.name = "add_cog_layer"
    /\ lastOp.args.before_id # None
    /\ Len(_layers) = 2
    /\ Has(_sources, SourceIdOf(lastOp.args.layer_id))
    /\ Get(_layers, lastOp.args.layer_id).source = SourceIdOf(lastOp.args.layer_id)

\* The call of the last step appended a record with this method and these
\* arguments.
Enqueued(method, args) ==
    \E j \in (Len(appended) + 1)..Len(appended') :
        appended'[j].method = method /\ appended'[j].args = args

\* C29: every mutator of the store enqueues a record that names the operation
\* and its target: add_layer an addLayer record with (def, id), add_source an
\* addSource record with (id, def), remove_layer a removeLayer record with
\* (id,), remove_source a removeSource record with (id,), the removes whether
\* or not the id is present.
C29_MutatorEnqueues ==
    [][ LET op == lastOp'
        IN nops' = nops + 1 =>
             CASE op.name = "add_layer" ->
                    Enqueued("addLayer", <<op.args.layer, Str(op.args.layer_id)>>)
               [] op.name = "add_source" ->
                    Enqueued("addSource", <<Str(op.args.source_id), op.args.source_config>>)
               [] op.name = "remove_layer" ->
                    Enqueued("removeLayer", <<Str(op.args.layer_id)>>)
               [] op.name = "remove_source" ->
                    Enqueued("removeSource", <<Str(op.args.source_id)>>)
               [] OTHER -> TRUE
      ]_vars

\* The records a step appended, by method and arguments.
NewRecords ==
    [j \in 1..(Len(appended') - Len(appended)) |->
        [method |-> appended'[Len(appended) + j].method,
         args |-> appended'[Len(appended) + j].args]]

Removals(method, ids) ==
    [i \in 1..Len(ids) |-> [method |-> method, args |-> <<Str(ids[i])>>]]

\* C30: clear_layers empties _layers with one removeLayer record per layer
\* that was present, in stored order, and leaves _sources as they are;
\* clear_all empties both stores, with every removeLayer record before the
\* first removeSource record.
C30_ClearOrder ==
    [][ /\ (nops' = nops + 1 /\ lastOp'.name = "clear_layers") =>
              /\ _layers' = <<>>
              /\ _sources' = _sources
              /\ NewRecords = Removals("removeLayer", Keys(_layers))
        /\ (nops' = nops + 1 /\ lastOp'.name = "clear_all") =>
              /\ _layers' = <<>>
              /\ _sources' = <<>>
              /\ NewRecords = Removals("removeLayer", Keys(_layers))
                                \o Removals("removeSource", Keys(_sources))
      ]_vars

\* clear_all has removed two layers and their sources.
C30_Witness ==
    /\ lastOp.name = "clear_all"
    /\ _layers = <<>>
    /\ _sources = <<>>
    /\ Len(appended) >= 4
    /\ LET n == Len(appended)
       IN /\ appended[n - 3].method = "removeLayer"
          /\ appended[n - 2].method = "removeLayer"
          /\ appended[n - 1].method = "removeSource"
          /\ appended[n].method = "removeSource"

\* The key of the control that the operation `op` adds or removes, None for
\* an operation that does neither.
ControlKeyOf(op) ==
    IF op.name \in {"add_control", "remove_control"}
    THEN Str(ControlKey(op.args.control_type, op.args.position))
    ELSE IF op.name = "add_layer_control"
    THEN Str(ControlKey("layer_control", op.args.position))
    ELSE IF op.name = "add_draw_control"
    THEN Str(ControlKey("draw", op.args.position))
    ELSE None

\* Every entry of _controls other than `key` is what it was.
OtherControlsKept(key) ==
    \A i \in 1..Len(_controls) :
        _controls[i].k # key =>
            /\ Has(_controls', _controls[i].k)
            /\ Get(_controls', _controls[i].k) = _controls[i].v

\* C31: controls are stored under the key (type, position): adding with a
\* key that is present replaces that entry and adds none, adding the type at
\* another position adds an entry, remove_control deletes that entry and no
\* other, and in every state the position field of each entry and the
\* position in its options are the position of its key.
C31_CompositeKey ==
    /\ [](\A i \in 1..Len(_controls) :
            /\ _controls[i].k = ControlKey(_controls[i].v.type, _controls[i].v.position)
            /\ objs[_controls[i].v.options.ref].position = _controls[i].v.position)
    /\ [][ (nops' = nops + 1 /\ ControlKeyOf(lastOp') # None) =>
             LET key == ControlKeyOf(lastOp').str
             IN /\ OtherControlsKept(key)
                /\ lastOp'.name = "remove_control" =>
                      Keys(_controls') = SelectSeq(Keys(_controls), LAMBDA k : k # key)
                /\ (lastOp'.name # "remove_control" /\ Has(_controls, key)) =>
                      Keys(_controls') = Keys(_controls)
                /\ (lastOp'.name # "remove_control" /\ ~Has(_controls, key)) =>
                      Keys(_controls') = Append(Keys(_controls), key)
         ]_vars

\* C32: a drain makes at most as many handler invocations as its batch owes
\* with the handlers registered when it began, every event to every handler
\* of its type, also when a handler registers handlers while the drain runs.
C32_DrainBounded ==
    Len(dispatched) <= Len(Owed(drain.began, _js_events))

\* C33: an add_layer, remove_layer, set_visibility or set_opacity that changes
\* what layer_dict tracks assigns to _layer_dict a value that differs from the
\* one the trait holds, so that the change is propagated: when the call
\* returns, the surface has the value of layer_dict.
C33_StaleTouchesTrait ==
    [][ (/\ nops' = nops + 1
         /\ lastOp'.name \in {"add_layer", "remove_layer", "set_visibility", "set_opacity"}
         /\ layer_dict' # layer_dict)
        => surface_layer_dict' = layer_dict'
      ]_vars

\* C34: when get_draw_data waits with _draw_data empty and the surface has
\* answered the getDrawData request within the wait, the call returns the
\* features of the answer and not the empty default, with one host thread
\* that both waits and takes the messages of the surface.
C34_PullReturnsAnswer ==
    [][ (/\ pull.pc = "sleep"
         /\ pull.name = "get_draw_data"
         /\ inbound # <<>>
         /\ pull'.pc = "returned")
        => pull'.returned = inbound[Len(inbound)].value
      ]_vars

\* C35: set_style with a string sets the persisted style to it and changes
\* nothing else, the call queue included; set_style with a style object
\* appends one setStyle record that carries the object and changes nothing
\* else, so that the snapshot of an export is the one from before the call.
C35_SetStyleFrame ==
    [][ (nops' = nops + 1 /\ lastOp'.name = "set_style") =>
          LET new_style == lastOp'.args.style
          IN IF "str" \in DOMAIN new_style
             THEN /\ style' = new_style.str
                  /\ Self' = [Self EXCEPT !.style = new_style.str]
             ELSE /\ style' = style
                  /\ appended' = Append(appended, [id |-> _js_method_counter,
                                                   method |-> "setStyle",
                                                   args |-> <<new_style>>])
                  /\ _js_calls' = Append(_js_calls, appended'[Len(appended')])
                  /\ [Self EXCEPT !._js_calls = <<>>, !.appended = <<>>,
                                  !._js_method_counter = 0]'
                       = [Self EXCEPT !._js_calls = <<>>, !.appended = <<>>,
                                      !._js_method_counter = 0]
                  /\ map_state_of(Self)' = map_state_of(Self)
      ]_vars

\* A style object has been set after a string, and the export that follows
\* holds the string.
C35_Witness ==
    /\ lastOp.name = "to_html"
    /\ IsDocument(document)
    /\ document.mapState.style = "https://new-style.com/style.json"
    /\ Len(appended) = 1
    /\ appended[1].method = "setStyle"
    /\ appended[1].args = <<StyleObject>>

\* C36: when clear_entities has returned, every entity that was added and not
\* removed has a removeEntity record after the record that added it: no
\* entity is left on the globe.
C36_ClearEntitiesRemovesAll ==
    lastOp.name = "clear_entities" => Entities(appended) = {}

\* The operation raised instead of returning.
RaisedIn(op) == op.name = "add_layer" /\ KeyError(op.args.layer)

\* C38: an add_layer that raises leaves the widget as it was before the
\* call: _layers, layer_dict, _layer_dict, _controls and the call queue are
\* unchanged.
C38_AddLayerAllOrNothing ==
    [][ (nops' = nops + 1 /\ RaisedIn(lastOp')) =>
          /\ _layers' = _layers
          /\ layer_dict' = layer_dict
          /\ _layer_dict' = _layer_dict
          /\ json_controls(objs, _controls)' = json_controls(objs, _controls)
          /\ _js_calls' = _js_calls
      ]_vars

\* The ids of a dict other than 'Background'.
LayerIdsOf(d) == KeySet(d) \ {"Background"}

\* C37: in every state a MapLibreMap is in after an operation that returned,
\* layer_dict tracks, 'Background' aside, exactly the ids that are keys of
\* _layers, and _layer_dict has the keys of layer_dict with the same visible
\* and opacity for each.
C37_TrackedIdsAgree ==
    (cls = "MapLibreMap" /\ ~RaisedIn(lastOp)) =>
        /\ LayerIdsOf(layer_dict) = LayerIdsOf(_layers)
        /\ Keys(_layer_dict) = Keys(layer_dict)
        /\ \A i \in 1..Len(layer_dict) :
              /\ _layer_dict[i].v.visible = layer_dict[i].v.visible
              /\ _layer_dict[i].v.opacity = layer_dict[i].v.opacity

\* The names of the paint properties among the records.
PaintNames(records) ==
    {records[k].args[2].str : k \in {j \in 1..Len(records) : records[j].method = "setPaintProperty"}}

\* C39: an add_layer call of a MapLibreMap enqueues its addLayer record
\* before its visibility and opacity records for the id, and its opacity
\* records name the opacity property of the type of the definition it adds,
\* icon-opacity and text-opacity for a symbol layer, also when the id is
\* declared again with another type.
C39_OpacityOfAddedType ==
    [][ (/\ nops' = nops + 1
         /\ lastOp'.name = "add_layer"
         /\ cls = "MapLibreMap"
         /\ ~RaisedIn(lastOp')) =>
          LET layer_id == lastOp'.args.layer_id
              layer_type == lastOp'.args.layer.type
          IN /\ NewRecords # <<>>
             /\ NewRecords[1].method = "addLayer"
             /\ \A k \in 2..Len(NewRecords) :
                   /\ NewRecords[k].method \in {"setLayoutProperty", "setPaintProperty"}
                   /\ NewRecords[k].args[1] = Str(layer_id)
             /\ PaintNames(NewRecords) =
                   IF layer_type = "symbol" THEN {"icon-opacity", "text-opacity"}
                   ELSE {layer_type \o "-opacity"}
      ]_vars
====
